---- MODULE Spec2Model ----
(***************************************************************************)
(* The interview-completion processor of apps/agent                        *)
(* (processors/interview_completion_processor.py): the state of one        *)
(* InterviewCompletionProcessor, the two speech handlers that setup()      *)
(* subscribes, the completion check, the one-shot completion latch and     *)
(* wait_for_completion.                                                    *)
(*                                                                         *)
(* Texts are strings; strip(), lower(), split() and the substring test     *)
(* `in` are computed character by character.  The clock is in whole        *)
(* seconds and advances in steps of 30 s.  A handler is a coroutine: it    *)
(* runs atomically from one suspension point to the next, and it suspends  *)
(* only where an await reaches real I/O (send_call_event, the completion   *)
(* callback).  Handlers of different events may be in flight together.     *)
(***************************************************************************)
EXTENDS Integers, Sequences, FiniteSets, TLC

VARIABLES
    questions,                \* self.questions: the plan, <<[text, category], ...>>
    minimum_duration_minutes, \* self.minimum_duration_minutes
    completion_callback,      \* TRUE iff a completion callback is configured
    call,                     \* TRUE iff self.call is set
    agent_user_id,            \* self.agent_user_id ("" until the controller sets it)
    questions_asked,          \* self.questions_asked
    current_question_index,   \* self.current_question_index
    agent_closing_phrases,    \* self.agent_closing_phrases
    last_agent_speech_time,   \* self.last_agent_speech_time (None = -1)
    interview_start_time,     \* self.interview_start_time (None = -1)
    is_complete,              \* self.is_complete.is_set()
    transcript,               \* self.transcript
    now,                      \* time.time(), whole seconds
    handlers,                 \* the speech events received, in arrival order, each with
                              \* the position of its handler coroutine
    waiters,                  \* the calls of wait_for_completion
    sent,                     \* the calls of call.send_call_event, in order
    complete_log,             \* the "Interview marked complete: <reason>" log lines
    callback_calls,           \* number of invocations of completion_callback
    overlapped,               \* TRUE once an event arrived while a handler was in flight
    env,                      \* the environment of the run: the texts the speech
                              \* backend delivers and the size of the run
    agents,                   \* AgentManager._agents: call id -> registered controller
    lock,                     \* AgentManager._lock: its holder and its waiters
    sessions,                 \* the calls of start_interview, each with its agent,
                              \* its processor and the position of its coroutine
    shutdowns                 \* the calls of shutdown_agent and shutdown_all

vars == <<questions, minimum_duration_minutes, completion_callback, call,
          agent_user_id, questions_asked, current_question_index,
          agent_closing_phrases, last_agent_speech_time, interview_start_time,
          is_complete, transcript, now, handlers, waiters, sent, complete_log,
          callback_calls, overlapped, env, agents, lock, sessions, shutdowns>>

manager == <<agents, lock, sessions, shutdowns>>

None == -1

----------------------------------------------------------------------------
(* Bounds of the runs. *)

MaxEvents == 2      \* speech events of a run
MaxTicks == 2       \* clock steps of 30 s of a run
MaxInFlight == 2    \* handler coroutines suspended at the same time
MaxWaiters == 2     \* calls of wait_for_completion of a run
QuotaEvents == 5    \* speech events of a run with the five-question plan
QuotaTicks == 7     \* clock steps of 30 s of a run with the five-question plan
MaxStarts == 2      \* calls of start_interview of a run
MaxShutdowns == 1   \* calls of shutdown_agent and shutdown_all of a run

----------------------------------------------------------------------------
(* str methods. *)

UpperChars == "ABCDEFGHIJKLMNOPQRSTUVWXYZ"
LowerChars == "abcdefghijklmnopqrstuvwxyz"

Char(s, i) == SubSeq(s, i, i)

IsSpace(c) == c = " "

LowerChar(c) ==
    IF \E i \in 1..26 : Char(UpperChars, i) = c
    THEN Char(LowerChars, CHOOSE i \in 1..26 : Char(UpperChars, i) = c)
    ELSE c

RECURSIVE Lower(_)
Lower(s) ==
    IF Len(s) = 0 THEN ""
    ELSE LowerChar(Char(s, 1)) \o Lower(SubSeq(s, 2, Len(s)))

RECURSIVE LStrip(_)
LStrip(s) ==
    IF Len(s) > 0 /\ IsSpace(Char(s, 1)) THEN LStrip(SubSeq(s, 2, Len(s))) ELSE s

RECURSIVE RStrip(_)
RStrip(s) ==
    IF Len(s) > 0 /\ IsSpace(Char(s, Len(s))) THEN RStrip(SubSeq(s, 1, Len(s) - 1)) ELSE s

Strip(s) == RStrip(LStrip(s))

\* sub in s
Contains(sub, s) ==
    \E i \in 1..(Len(s) - Len(sub) + 1) : SubSeq(s, i, i + Len(sub) - 1) = sub

\* s.split(): the maximal runs of non-space characters, in order
RECURSIVE SplitFrom(_, _, _)
SplitFrom(s, i, word) ==
    IF i > Len(s)
    THEN IF word = "" THEN <<>> ELSE <<word>>
    ELSE IF IsSpace(Char(s, i))
         THEN IF word = "" THEN SplitFrom(s, i + 1, "")
              ELSE <<word>> \o SplitFrom(s, i + 1, "")
         ELSE SplitFrom(s, i + 1, word \o Char(s, i))

Split(s) == SplitFrom(s, 1, "")

\* " ".join(words)
RECURSIVE Join(_)
Join(words) ==
    IF Len(words) = 0 THEN ""
    ELSE IF Len(words) = 1 THEN words[1]
    ELSE words[1] \o " " \o Join(Tail(words))

----------------------------------------------------------------------------
(* The runs: question plans, the texts the speech backend delivers, sizes. *)

Q1 == [text |-> "Tell me about your background in software", category |-> "Introduction"]
Q2 == [text |-> "Can you explain how you would design a scalable system for many users?",
       category |-> "Technical Skills"]
Q3 == [text |-> "How did you handle a conflict in your team", category |-> "Teamwork"]
Q4 == [text |-> "Describe a project you are proud of", category |-> "Experience"]
Q5 == [text |-> "What was your biggest challenge last year", category |-> "Experience"]

Environment(agentTexts, userTexts, maxEvents, maxTicks, maxWaiters, timeouts) ==
    [ agentTexts |-> agentTexts, userTexts |-> userTexts, maxEvents |-> maxEvents,
      maxTicks |-> maxTicks, maxWaiters |-> maxWaiters, timeouts |-> timeouts,
      failing |-> {} ]

Scenario(plan, minimum, callback, hasCall, e) ==
    [ questions |-> plan, minimum_duration_minutes |-> minimum,
      completion_callback |-> callback, call |-> hasCall, env |-> e ]

\* a two-question plan with notifications: the progress of the plan
ProgressEnv ==
    Environment({ "Great. Tell me about your background",
                  " Your background in software ",
                  "Can you explain how you would design it?" },
                { "Yes" },
                MaxEvents, MaxTicks, 0, {})

\* a one-question plan with a completion callback: the ways to complete
ClosingEnv ==
    Environment({ "Thank you for your time", "So what about tests?" },
                { "Okay bye", "Yes" },
                MaxEvents, MaxTicks, MaxWaiters - 1, {0, 30})

GeneralScenarios ==
    { Scenario(<<Q1>>, 1, FALSE, TRUE, ProgressEnv),
      Scenario(<<Q1, Q2>>, 1, FALSE, TRUE, ProgressEnv),
      Scenario(<<Q1, Q2>>, 1, TRUE, FALSE, ClosingEnv) }

\* the five-question plan with minimum_duration_minutes = 3 (agent_manager.py:193)
QuotaEnv ==
    Environment({ "What about testing?", "Thanks for sharing, goodbye" }, {},
                QuotaEvents, QuotaTicks, 0, {})

QuotaScenarios ==
    { Scenario(<<Q1, Q2, Q3, Q4, Q5>>, 3, FALSE, FALSE, QuotaEnv) }

\* several calls of wait_for_completion, with a completion callback
WaitEnv ==
    Environment({}, { "Goodbye" },
                MaxEvents - 1, MaxTicks, MaxWaiters, {0, 60})

\* one waiter beside handlers that await their notifications
NotifyEnv ==
    Environment({ "Tell me about your background? Good luck" }, {},
                MaxEvents - 1, MaxTicks, MaxWaiters - 1, {60})

WaitScenarios ==
    { Scenario(<<Q1>>, 1, TRUE, FALSE, WaitEnv),
      Scenario(<<Q1, Q2, Q3>>, 1, FALSE, TRUE, NotifyEnv) }

\* what the transcript keeps: punctuation, single characters and blank texts,
\* from both speakers, with a completion callback and a waiter
FilterEnv ==
    Environment({ "." },
                { ".", "...", "y", "Okay bye" },
                MaxEvents, MaxTicks, MaxWaiters - 1, {30})

\* the same with notifications: entries of handlers that overlap
BroadcastEnv ==
    Environment({ "Tell me about your background?", "  " },
                { "...", " y " },
                MaxEvents, MaxTicks, 0, {})

TranscriptScenarios ==
    { Scenario(<<Q1>>, 1, TRUE, FALSE, FilterEnv),
      Scenario(<<Q1>>, 1, FALSE, TRUE, BroadcastEnv) }

\* a three-question plan with notifications whose send_call_event may raise,
\* a completion callback and a waiter: an utterance that asks the first
\* question and closes, beside another question
OutageEnv ==
    [ Environment({ "Tell me about your background? Thank you for your time",
                    "So what about tests?" },
                  { "Okay bye" },
                  MaxEvents, 1, MaxWaiters - 1, {30})
      EXCEPT !.failing = {"send_call_event"} ]

OutageScenarios ==
    { Scenario(<<Q1, Q2, Q3>>, 1, TRUE, TRUE, OutageEnv) }

\* plans of zero and of one question, with notifications, a completion
\* callback and a waiter: a closing phrase alone, and one after the question
ShortPlanEnv ==
    Environment({ "Thank you for your time",
                  "Tell me about your background? Thank you for your time" },
                { "Yes" },
                MaxEvents, MaxTicks, MaxWaiters - 1, {30})

ShortPlanScenarios ==
    { Scenario(<<>>, 3, TRUE, TRUE, ShortPlanEnv),
      Scenario(<<Q1>>, 3, TRUE, TRUE, ShortPlanEnv) }

\* the runs of the manager: the call ids of the requests, whether an avatar
\* is configured, the I/O calls that may raise, the shutdown calls made
ManagerEnvironment(callIds, avatars, failing, shutdownKinds, maxStarts, maxShutdowns,
                   userTexts, maxEvents) ==
    [ callIds |-> callIds, avatars |-> avatars, failing |-> failing,
      shutdownKinds |-> shutdownKinds, maxStarts |-> maxStarts,
      maxShutdowns |-> maxShutdowns, agentTexts |-> {}, userTexts |-> userTexts,
      maxEvents |-> maxEvents ]

\* concurrent requests for one call id, with a join that may raise
RaceEnv ==
    ManagerEnvironment({"call-1"}, {FALSE}, {"join"}, {}, MaxStarts, 0, {}, 0)

\* one interview with an avatar or without, I/O that may raise, a shutdown
ShutdownEnv ==
    ManagerEnvironment({"call-1"}, {FALSE, TRUE},
                       {"create_user", "join", "prompt", "close", "webhook"},
                       {"agent", "all"},
                       1, MaxShutdowns, {"Okay bye"}, 1)

\* interviews of two calls, closes that may raise, shutdown_all
GatherEnv ==
    ManagerEnvironment({"call-1", "call-2"}, {FALSE}, {"close"}, {"all"},
                       2, MaxShutdowns, {}, 0)

\* one interview and repeated shutdowns of its call id
RepeatEnv ==
    ManagerEnvironment({"call-1"}, {FALSE}, {}, {"agent", "all"},
                       1, MaxShutdowns + 1, {}, 0)

\* one interview with a prompt that may raise, and repeated shutdowns: the
\* tasks that meet at the lock
LockEnv ==
    ManagerEnvironment({"call-1"}, {FALSE}, {"prompt"}, {"agent", "all"},
                       1, MaxShutdowns + 1, {"Okay bye"}, 1)

\* overlapping starts of one call id with a join that may raise, and a
\* shutdown: controllers that meet at the lock
ContentionEnv ==
    ManagerEnvironment({"call-1"}, {FALSE}, {"join"}, {"agent"},
                       2, 1, {}, 0)

\* one interview whose user goes on speaking, and a shutdown
LateSpeechEnv ==
    ManagerEnvironment({"call-1"}, {FALSE}, {}, {"agent", "all"},
                       1, MaxShutdowns, {"Okay bye", "Yes"}, MaxEvents)

\* interviews started one after the other for one call id, whose users say
\* goodbye, and a shutdown
PairEnv ==
    ManagerEnvironment({"call-1"}, {FALSE}, {}, {"all"},
                       2, 1, {"Okay bye"}, 1)

\* the processor that start_interview builds (agent_manager.py:191-195)
ManagerScenarios ==
    { Scenario(<<Q1>>, 3, FALSE, TRUE, RaceEnv),
      Scenario(<<Q1>>, 3, FALSE, TRUE, ShutdownEnv),
      Scenario(<<Q1>>, 3, FALSE, TRUE, GatherEnv),
      Scenario(<<Q1>>, 3, FALSE, TRUE, RepeatEnv) }

LockScenarios ==
    { Scenario(<<Q1>>, 3, FALSE, TRUE, LockEnv),
      Scenario(<<Q1>>, 3, FALSE, TRUE, ContentionEnv) }

SessionsScenarios ==
    { Scenario(<<Q1>>, 3, FALSE, TRUE, LateSpeechEnv),
      Scenario(<<Q1>>, 3, FALSE, TRUE, PairEnv) }

----------------------------------------------------------------------------
(* InterviewCompletionProcessor: constants of __init__. *)

closing_keywords ==
    { "goodbye", "good bye", "bye",
      "luck", "best wishes",
      "thank you for your time", "thanks for sharing",
      "we'll be in touch", "be in touch",
      "that concludes", "wraps up" }

question_indicators ==
    { "tell me about", "can you explain", "what about",
      "how did you", "why did you", "describe",
      "walk me through", "what was your", "?" }

expected_questions == Len(questions)

\* any(indicator in text_lower for indicator in self.question_indicators)
HasQuestionIndicator(text_lower) ==
    \E indicator \in question_indicators : Contains(indicator, text_lower)

\* any(keyword in text_lower for keyword in self.closing_keywords)
HasClosingKeyword(text_lower) ==
    \E keyword \in closing_keywords : Contains(keyword, text_lower)

\* "goodbye" in text_lower or "bye" in text_lower
IsUserFarewell(text_lower) ==
    Contains("goodbye", text_lower) \/ Contains("bye", text_lower)

\* the 3-consecutive-word test of _check_question_match on one planned question
MatchesQuestion(question_text_raw, speech_text) ==
    LET question_text == Lower(question_text_raw)
        speech_lower == Lower(speech_text)
        key_phrase == IF Len(question_text) > 50
                      THEN SubSeq(question_text, 1, 50)
                      ELSE question_text
        words == Split(key_phrase)
    IN  \E i \in 0..(Len(words) - 3) :
            Contains(Join(SubSeq(words, i + 1, i + 3)), speech_lower)

----------------------------------------------------------------------------
(* The str computations above are pure: they are evaluated once for every  *)
(* text of the runs and looked up afterwards.                              *)

AllEnvs ==
    {ProgressEnv, ClosingEnv, QuotaEnv, WaitEnv, NotifyEnv, FilterEnv, BroadcastEnv,
     OutageEnv, ShortPlanEnv, RaceEnv, ShutdownEnv, GatherEnv, RepeatEnv, LockEnv, ContentionEnv,
     LateSpeechEnv,
     PairEnv}

AllScenarios ==
    GeneralScenarios \cup QuotaScenarios \cup WaitScenarios \cup TranscriptScenarios
    \cup OutageScenarios \cup ShortPlanScenarios \cup ManagerScenarios \cup LockScenarios
    \cup SessionsScenarios

EventTexts == UNION {e.agentTexts \cup e.userTexts : e \in AllEnvs}

QuestionTexts == UNION {{sc.questions[i].text : i \in 1..Len(sc.questions)} : sc \in AllScenarios}

StripOf == [t \in EventTexts |-> Strip(t)]

Texts == {StripOf[t] : t \in EventTexts}

LowerOf == [t \in Texts |-> Lower(t)]

HasQuestionIndicatorOf == [t \in Texts |-> HasQuestionIndicator(LowerOf[t])]

HasClosingKeywordOf == [t \in Texts |-> HasClosingKeyword(LowerOf[t])]

IsUserFarewellOf == [t \in Texts |-> IsUserFarewell(LowerOf[t])]

MatchesQuestionOf == [q \in QuestionTexts, t \in Texts |-> MatchesQuestion(q, t)]

\* _check_question_match that always looks at the first planned question
check_question_match_first(index, speech_text) ==
    IF Len(questions) = 0 THEN FALSE
    ELSE MatchesQuestionOf[questions[1].text, speech_text]

\* _check_question_match(speech_text) with current_question_index = index
check_question_match(index, speech_text) ==
    IF index >= Len(questions) THEN FALSE
    ELSE MatchesQuestionOf[questions[index + 1].text, speech_text]

\* round(elapsed, 2): elapsed is a whole number of seconds here
Round2(elapsed) == elapsed

\* f"{seconds / 60:.1f}" for a whole number of seconds that is a multiple of 6
\* (every clock value and every timeout of the runs is a multiple of 30)
FormatMinutes(seconds) ==
    LET tenths == (seconds + 3) \div 6
    IN  ToString(tenths \div 10) \o "." \o ToString(tenths % 10)

\* not self.call or not self.agent_user_id is false: send_call_event is awaited
NotificationsOn == call /\ agent_user_id # ""

----------------------------------------------------------------------------
(* The mutable state of the processor as one record, so that the code      *)
(* between two suspension points is a function from state to state.        *)

Self ==
    [ questions_asked |-> questions_asked,
      current_question_index |-> current_question_index,
      agent_closing_phrases |-> agent_closing_phrases,
      last_agent_speech_time |-> last_agent_speech_time,
      is_complete |-> is_complete,
      transcript |-> transcript,
      sent |-> sent,
      complete_log |-> complete_log,
      callback_calls |-> callback_calls ]

SetSelf(s) ==
    /\ questions_asked' = s.questions_asked
    /\ current_question_index' = s.current_question_index
    /\ agent_closing_phrases' = s.agent_closing_phrases
    /\ last_agent_speech_time' = s.last_agent_speech_time
    /\ is_complete' = s.is_complete
    /\ transcript' = s.transcript
    /\ sent' = s.sent
    /\ complete_log' = s.complete_log
    /\ callback_calls' = s.callback_calls

\* What a run of code returns: the state it leaves, where the coroutine is
\* now ("send_transcript", "send_progress", "callback": suspended in that
\* await; "done": returned) and whether it passed the question match.
Result(s, pc, matched) == [s |-> s, pc |-> pc, matched |-> matched]

\* _mark_complete that toggles the event instead of setting it once
mark_complete_toggles(s, reason) ==
    IF ~s.is_complete
    THEN LET s1 == [s EXCEPT !.is_complete = TRUE,
                             !.complete_log = Append(@, reason)]
         IN  IF completion_callback
             THEN Result([s1 EXCEPT !.callback_calls = @ + 1], "callback", FALSE)
             ELSE Result(s1, "done", FALSE)
    ELSE Result([s EXCEPT !.is_complete = FALSE], "done", FALSE)

\* _mark_complete with the callback outside the is_set() test
mark_complete_always_calls(s, reason) ==
    LET s1 == IF ~s.is_complete
              THEN [s EXCEPT !.is_complete = TRUE, !.complete_log = Append(@, reason)]
              ELSE s
    IN  IF completion_callback
        THEN Result([s1 EXCEPT !.callback_calls = @ + 1], "callback", FALSE)
        ELSE Result(s1, "done", FALSE)

\* _mark_complete(reason), up to the await of the callback
mark_complete(s, reason) ==
    IF ~s.is_complete
    THEN LET s1 == [s EXCEPT !.is_complete = TRUE,
                             !.complete_log = Append(@, reason)]
         IN  IF completion_callback
             THEN Result([s1 EXCEPT !.callback_calls = @ + 1], "callback", FALSE)
             ELSE Result(s1, "done", FALSE)
    ELSE Result(s, "done", FALSE)

\* the decision with "and" in place of "or"
ShouldComplete_and(has_closing_phrase, enough_questions, enough_time) ==
    has_closing_phrase /\ (enough_questions /\ enough_time)

\* the decision of _check_completion
ShouldComplete(has_closing_phrase, enough_questions, enough_time) ==
    has_closing_phrase /\ (enough_questions \/ enough_time)

\* _check_completion without the variance of one question
check_completion_no_variance(s) ==
    LET duration_seconds == IF interview_start_time # None
                            THEN now - interview_start_time
                            ELSE 0
        has_closing_phrase == Len(s.agent_closing_phrases) > 0
        enough_questions == s.questions_asked >= expected_questions
        enough_time == duration_seconds >= 60 * minimum_duration_minutes
        reason == <<>>
                  \o (IF has_closing_phrase THEN <<"agent said goodbye">> ELSE <<>>)
                  \o (IF enough_questions
                      THEN <<"asked " \o ToString(s.questions_asked) \o " questions">>
                      ELSE <<>>)
                  \o (IF enough_time
                      THEN <<FormatMinutes(duration_seconds) \o " min duration">>
                      ELSE <<>>)
        RECURSIVE JoinComma(_)
        JoinComma(parts) ==
            IF Len(parts) = 0 THEN ""
            ELSE IF Len(parts) = 1 THEN parts[1]
            ELSE parts[1] \o ", " \o JoinComma(Tail(parts))
    IN  IF ShouldComplete(has_closing_phrase, enough_questions, enough_time)
        THEN mark_complete(s, JoinComma(reason))
        ELSE Result(s, "done", FALSE)

\* _check_completion whose reason lists the three criteria whether they
\* hold or not
check_completion_lists_all(s) ==
    LET duration_seconds == IF interview_start_time # None
                            THEN now - interview_start_time
                            ELSE 0
        has_closing_phrase == Len(s.agent_closing_phrases) > 0
        enough_questions == s.questions_asked >= expected_questions - 1
        enough_time == duration_seconds >= 60 * minimum_duration_minutes
        reason == "agent said goodbye, asked " \o ToString(s.questions_asked)
                  \o " questions, " \o FormatMinutes(duration_seconds)
                  \o " min duration"
    IN  IF ShouldComplete(has_closing_phrase, enough_questions, enough_time)
        THEN mark_complete(s, reason)
        ELSE Result(s, "done", FALSE)

\* _check_completion()
check_completion(s) ==
    LET duration_seconds == IF interview_start_time # None
                            THEN now - interview_start_time
                            ELSE 0
        has_closing_phrase == Len(s.agent_closing_phrases) > 0
        enough_questions == s.questions_asked >= expected_questions - 1
        enough_time == duration_seconds >= 60 * minimum_duration_minutes
        reason == <<>>
                  \o (IF has_closing_phrase THEN <<"agent said goodbye">> ELSE <<>>)
                  \o (IF enough_questions
                      THEN <<"asked " \o ToString(s.questions_asked) \o " questions">>
                      ELSE <<>>)
                  \o (IF enough_time
                      THEN <<FormatMinutes(duration_seconds) \o " min duration">>
                      ELSE <<>>)
        RECURSIVE JoinComma(_)
        JoinComma(parts) ==
            IF Len(parts) = 0 THEN ""
            ELSE IF Len(parts) = 1 THEN parts[1]
            ELSE parts[1] \o ", " \o JoinComma(Tail(parts))
    IN  IF ShouldComplete(has_closing_phrase, enough_questions, enough_time)
        THEN mark_complete(s, JoinComma(reason))
        ELSE Result(s, "done", FALSE)

\* the completion check run again on every agent utterance
agent_closing_rechecks(s, text) ==
    IF HasClosingKeywordOf[text]
    THEN check_completion([s EXCEPT !.agent_closing_phrases = Append(@, text)])
    ELSE check_completion(s)

\* closing phrase detection without the keyword test
agent_closing_no_keyword(s, text) ==
    check_completion([s EXCEPT !.agent_closing_phrases = Append(@, text)])

\* on_agent_speech, lines 196-202: closing phrase detection
agent_closing(s, text) ==
    IF HasClosingKeywordOf[text]
    THEN check_completion([s EXCEPT !.agent_closing_phrases = Append(@, text)])
    ELSE Result(s, "done", FALSE)

\* on_agent_speech, line 194 and on: after the progress event
agent_advance(s, text) ==
    LET r == agent_closing([s EXCEPT !.current_question_index = @ + 1], text)
    IN  Result(r.s, r.pc, TRUE)

\* question match outside the question-indicator test
agent_count_ungated(s, text) ==
    LET s1 == IF HasQuestionIndicatorOf[text]
              THEN [s EXCEPT !.questions_asked = @ + 1]
              ELSE s
    IN  IF check_question_match(s1.current_question_index, text)
        THEN IF NotificationsOn
             THEN Result([s1 EXCEPT !.sent = Append(@,
                             [type |-> "progress",
                              questionIndex |-> s1.current_question_index,
                              category |-> questions[s1.current_question_index + 1].category,
                              totalQuestions |-> expected_questions])],
                         "send_progress", TRUE)
             ELSE agent_advance(s1, text)
        ELSE agent_closing(s1, text)

\* question counting that adds one per question indicator found in the text
agent_count_per_indicator(s, text) ==
    IF HasQuestionIndicatorOf[text]
    THEN LET found == {indicator \in question_indicators :
                          Contains(indicator, LowerOf[text])}
             s1 == [s EXCEPT !.questions_asked = @ + Cardinality(found)]
         IN  IF check_question_match(s1.current_question_index, text)
             THEN IF NotificationsOn
                  THEN Result([s1 EXCEPT !.sent = Append(@,
                                  [type |-> "progress",
                                   questionIndex |-> s1.current_question_index,
                                   category |-> questions[s1.current_question_index + 1].category,
                                   totalQuestions |-> expected_questions])],
                              "send_progress", TRUE)
                  ELSE agent_advance(s1, text)
             ELSE agent_closing(s1, text)
    ELSE agent_closing(s, text)

\* on_agent_speech, lines 182-193: question counting and question match
agent_count(s, text) ==
    IF HasQuestionIndicatorOf[text]
    THEN LET s1 == [s EXCEPT !.questions_asked = @ + 1]
         IN  IF check_question_match(s1.current_question_index, text)
             THEN IF NotificationsOn
                  THEN Result([s1 EXCEPT !.sent = Append(@,
                                  [type |-> "progress",
                                   questionIndex |-> s1.current_question_index,
                                   category |-> questions[s1.current_question_index + 1].category,
                                   totalQuestions |-> expected_questions])],
                              "send_progress", TRUE)
                  ELSE agent_advance(s1, text)
             ELSE agent_closing(s1, text)
    ELSE agent_closing(s, text)

\* on_agent_speech with the operands of the elapsed time exchanged
agent_entry_swapped(s, event_text) ==
    LET text == StripOf[event_text]
        s0 == [s EXCEPT !.last_agent_speech_time = now]
        elapsed == interview_start_time - now
        s1 == [s0 EXCEPT !.transcript = Append(@,
                   [speaker |-> "agent", text |-> text, timestamp |-> Round2(elapsed)])]
    IN  IF text # ""
        THEN IF NotificationsOn
             THEN Result([s1 EXCEPT !.sent = Append(@,
                             [type |-> "transcript", speaker |-> "agent",
                              text |-> text, timestamp |-> Round2(elapsed)])],
                         "send_transcript", FALSE)
             ELSE agent_count(s1, text)
        ELSE agent_count(s0, text)

\* on_agent_speech, lines 167-180: transcript entry and its broadcast
agent_entry(s, event_text) ==
    LET text == StripOf[event_text]
        s0 == [s EXCEPT !.last_agent_speech_time = now]
        elapsed == now - interview_start_time
        s1 == [s0 EXCEPT !.transcript = Append(@,
                   [speaker |-> "agent", text |-> text, timestamp |-> Round2(elapsed)])]
    IN  IF text # ""
        THEN IF NotificationsOn
             THEN Result([s1 EXCEPT !.sent = Append(@,
                             [type |-> "transcript", speaker |-> "agent",
                              text |-> text, timestamp |-> Round2(elapsed)])],
                         "send_transcript", FALSE)
             ELSE agent_count(s1, text)
        ELSE agent_count(s0, text)

\* the user's farewell sent through the completion check
user_farewell_checked(s, text) ==
    IF IsUserFarewellOf[text]
    THEN check_completion(s)
    ELSE Result(s, "done", FALSE)

\* on_user_speech, lines 224-227: the user's farewell
user_farewell(s, text) ==
    IF IsUserFarewellOf[text]
    THEN mark_complete(s, "User said goodbye")
    ELSE Result(s, "done", FALSE)

\* on_user_speech that puts its entry at the head of the transcript
user_entry_prepends(s, event_text) ==
    LET text == StripOf[event_text]
        elapsed == now - interview_start_time
        s1 == [s EXCEPT !.transcript =
                  <<[speaker |-> "user", text |-> text, timestamp |-> Round2(elapsed)]>> \o @]
    IN  IF text # "" /\ Len(text) > 1
        THEN IF NotificationsOn
             THEN Result([s1 EXCEPT !.sent = Append(@,
                             [type |-> "transcript", speaker |-> "user",
                              text |-> text, timestamp |-> Round2(elapsed)])],
                         "send_transcript", FALSE)
             ELSE user_farewell(s1, text)
        ELSE user_farewell(s, text)

\* on_user_speech, lines 207-222: transcript entry and its broadcast
user_entry(s, event_text) ==
    LET text == StripOf[event_text]
        elapsed == now - interview_start_time
        s1 == [s EXCEPT !.transcript = Append(@,
                  [speaker |-> "user", text |-> text, timestamp |-> Round2(elapsed)])]
    IN  IF text # "" /\ Len(text) > 1
        THEN IF NotificationsOn
             THEN Result([s1 EXCEPT !.sent = Append(@,
                             [type |-> "transcript", speaker |-> "user",
                              text |-> text, timestamp |-> Round2(elapsed)])],
                         "send_transcript", FALSE)
             ELSE user_farewell(s1, text)
        ELSE user_farewell(s, text)

\* TranscriptEntry.to_dict(): asdict of the dataclass
to_dict(entry) ==
    [speaker |-> entry.speaker, text |-> entry.text, timestamp |-> entry.timestamp]

\* get_transcript()
get_transcript == [i \in 1..Len(transcript) |-> to_dict(transcript[i])]

\* the except branch without the call of _mark_complete
wait_timeout_only_logs(s, timeout) == Result(s, "done", FALSE)

\* the except branch of wait_for_completion
wait_timeout(s, timeout) ==
    mark_complete(s, "timeout after " \o FormatMinutes(timeout) \o " minutes")

----------------------------------------------------------------------------
(***************************************************************************)
(* AgentManager (agents/agent_manager.py): the registry self._agents, the  *)
(* lock self._lock, the coroutines start_interview (one controller per     *)
(* call of it), shutdown_agent and shutdown_all, and what they do to the   *)
(* agents: avatar session, connection.  Each controller owns one           *)
(* InterviewCompletionProcessor, kept here by its completion event and its *)
(* transcript.  A coroutine runs atomically from one await of real I/O to  *)
(* the next; every I/O call returns or raises.                             *)
(***************************************************************************)

NoTask == [kind |-> "none", id |-> 0]

Task(kind, id) == [kind |-> kind, id |-> id]

\* self._agents = {}
EmptyRegistry == [c \in {} |-> 0]

\* self._agents[call_id] = ActiveAgent(...): the entry refers to the controller's agent
Put(registry, call_id, i) ==
    [c \in DOMAIN registry \cup {call_id} |-> IF c = call_id THEN i ELSE registry[c]]

\* del self._agents[call_id]
Del(registry, call_id) == [c \in DOMAIN registry \ {call_id} |-> registry[c]]

\* the state of the manager as one record
M == [agents |-> agents, lock |-> lock, sessions |-> sessions, shutdowns |-> shutdowns]

SetM(m) ==
    /\ agents' = m.agents
    /\ lock' = m.lock
    /\ sessions' = m.sessions
    /\ shutdowns' = m.shutdowns

\* is_call_active(call_id)
is_call_active(m, call_id) == call_id \in DOMAIN m.agents

\* a call of start_interview: its agent, its processor and where its coroutine is
Session(call_id, pc, avatar) ==
    [ call_id |-> call_id,
      pc |-> pc,
      avatar |-> avatar,          \* a processor with _rtc_manager is attached
      rtc |-> IF avatar THEN "open" ELSE "none",
      connection |-> "none",      \* agent._connection: none, open, closed
      agent_user_id |-> "",       \* completion_processor.agent_user_id
      setup_time |-> None,        \* completion_processor.interview_start_time
      is_complete |-> FALSE,      \* completion_processor.is_complete
      transcript |-> <<>>,        \* completion_processor.transcript
      deadline |-> None,          \* end of wait_for_completion(timeout=900)
      wake |-> None,              \* end of asyncio.sleep(5)
      wait_result |-> "none",     \* how wait_for_completion returned
      signal_time |-> None,       \* when wait_for_completion returned
      snapshot |-> <<>>,          \* <<duration, transcript>> read at lines 237-238
      failed_in |-> "none",       \* where an exception was raised
      cleanup |-> "none",         \* the cleanup the lock holder runs on this agent
      registered |-> 0,           \* times registered
      removed |-> 0,              \* times removed from the registry
      removed_in |-> "none",      \* state of the controller when a shutdown removed it
      teardowns |-> 0,            \* times a cleanup was run on the agent
      rtc_closes |-> 0,           \* calls of _rtc_manager.close()
      closes |-> 0,               \* calls of agent._connection.close()
      reports |-> 0,              \* calls of _send_completion_webhook
      delivery |-> "none" ]       \* how the POST of the report ended: ok, failed

\* a call of shutdown_agent ("agent") or shutdown_all ("all")
Shutdown(kind, call_id) ==
    [kind |-> kind, call_id |-> call_id, pc |-> "lock", count |-> 0,
     targets |-> {}, result |-> "none"]

WaitTimeoutSeconds == 900   \* wait_for_completion(timeout=900)
GraceSeconds == 5           \* asyncio.sleep(5)

TerminalPcs == {"done", "raised", "rejected"}

\* the state of the controller
ControllerState(s) ==
    IF s.pc = "rejected" THEN "NONE"
    ELSE IF s.pc \in {"create_user", "lock_register", "join"} THEN "CREATED"
    ELSE IF s.pc = "prompt" THEN "JOINED"
    ELSE IF s.pc = "wait" THEN "RUNNING"
    ELSE IF s.pc \in {"grace", "lock_finish", "closing", "webhook"} THEN "COMPLETING"
    ELSE IF s.pc \in {"lock_error", "error_closing"} THEN s.failed_in
    ELSE "TERMINATED"

\* if agent._connection: await agent._connection.close()
close_connection(s) ==
    IF s.connection # "none"
    THEN [s EXCEPT !.cleanup = "conn", !.closes = @ + 1]
    ELSE [s EXCEPT !.cleanup = "done"]

\* a cleanup that also sets the completion event of the agent it tears down
cleanup_agent_completes(s) ==
    LET s1 == [s EXCEPT !.teardowns = @ + 1, !.is_complete = TRUE]
    IN  IF s1.avatar
        THEN [s1 EXCEPT !.cleanup = "rtc", !.rtc_closes = @ + 1]
        ELSE close_connection(s1)

\* _cleanup_agent, and the same steps inside _finish_interview, up to the
\* first await: the avatar session first, then the connection
cleanup_agent(s) ==
    LET s1 == [s EXCEPT !.teardowns = @ + 1]
    IN  IF s1.avatar
        THEN [s1 EXCEPT !.cleanup = "rtc", !.rtc_closes = @ + 1]
        ELSE close_connection(s1)

\* a close() of the avatar session that raises ends the cleanup
close_returns_aborts(s, ok) ==
    IF s.cleanup = "rtc"
    THEN IF ok
         THEN close_connection([s EXCEPT !.rtc = "closed"])
         ELSE [s EXCEPT !.cleanup = "done"]
    ELSE [s EXCEPT !.cleanup = "done", !.connection = IF ok THEN "closed" ELSE @]

\* an awaited close() returns (ok) or raises: the except branches only log
close_returns(s, ok) ==
    IF s.cleanup = "rtc"
    THEN close_connection([s EXCEPT !.rtc = IF ok THEN "closed" ELSE @])
    ELSE [s EXCEPT !.cleanup = "done", !.connection = IF ok THEN "closed" ELSE @]

\* the agents a cleanup is running on
Cleaning(m) == {t \in 1..Len(m.sessions) : m.sessions[t].cleanup # "none"}

\* the lock is released at the end of `async with self._lock`
release(m) == [m EXCEPT !.lock.holder = NoTask]

\* the entries of the agents in `gone` leave the registry and their cleanup
\* is over; by_shutdown: it was shutdown_agent or shutdown_all called from
\* outside that removed them
Unregister(m, gone, by_shutdown) ==
    LET ss == m.sessions
    IN  [m EXCEPT !.agents = [c \in {d \in DOMAIN m.agents : m.agents[d] \notin gone}
                                 |-> m.agents[c]],
                  !.sessions = [t \in 1..Len(ss) |->
                                   IF t \in gone
                                   THEN [ss[t] EXCEPT
                                            !.cleanup = "none",
                                            !.removed = @ + 1,
                                            !.removed_in = IF by_shutdown
                                                           THEN ControllerState(ss[t])
                                                           ELSE @]
                                   ELSE ss[t]]]

\* the rest of the locked section once every awaited close has returned
end_section(m, task) ==
    LET m1 == release(Unregister(m, Cleaning(m), task.kind = "shutdown"))
    IN  IF task.kind = "start"
        THEN IF m.sessions[task.id].pc = "closing"
             \* _finish_interview: del, then the webhook outside the lock
             THEN [m1 EXCEPT !.sessions[task.id].pc = "webhook",
                             !.sessions[task.id].reports = @ + 1]
             \* except branch of start_interview: shutdown_agent returned, raise
             ELSE [m1 EXCEPT !.sessions[task.id].pc = "raised"]
        ELSE IF m.shutdowns[task.id].kind = "agent"
             THEN [m1 EXCEPT !.shutdowns[task.id].pc = "done",
                             !.shutdowns[task.id].result = "True"]
             \* shutdown_all: self._agents.clear(); return count
             ELSE [m1 EXCEPT !.agents = EmptyRegistry,
                             !.shutdowns[task.id].pc = "done",
                             !.shutdowns[task.id].result =
                                 ToString(m.shutdowns[task.id].count)]

\* the holder of the lock goes on when no close is pending
settle(m, task) ==
    IF \A t \in Cleaning(m) : m.sessions[t].cleanup = "done"
    THEN end_section(m, task)
    ELSE m

\* a registration that goes on to the join with the lock still held
register_keeps_lock(m, i) ==
    LET call_id == m.sessions[i].call_id
    IN  [m EXCEPT !.agents = Put(@, call_id, i),
                  !.sessions[i].registered = @ + 1,
                  !.sessions[i].pc = "join"]

\* start_interview, lines 201-213: register, then join
register(m, i) ==
    LET call_id == m.sessions[i].call_id
    IN  release([m EXCEPT !.agents = Put(@, call_id, i),
                          !.sessions[i].registered = @ + 1,
                          !.sessions[i].pc = "join"])

\* _finish_interview, lines 263-284, and shutdown_agent called by the except
\* branch of start_interview, lines 304-310: the locked section up to its
\* first await
controller_section(m, i, pcAbsent, pcClosing) ==
    LET call_id == m.sessions[i].call_id
    IN  IF ~is_call_active(m, call_id)
        THEN release([m EXCEPT !.sessions[i].pc = pcAbsent])
        ELSE LET t == m.agents[call_id]
                 m1 == [m EXCEPT !.sessions[i].pc = pcClosing]
             IN  settle([m1 EXCEPT !.sessions[t] = cleanup_agent(m1.sessions[t])],
                        Task("start", i))

\* shutdown_agent that cleans up the agent it is given whether it is
\* registered or not
shutdown_agent_unchecked(m, j) ==
    LET call_id == m.shutdowns[j].call_id
        known == {t \in 1..Len(m.sessions) : m.sessions[t].call_id = call_id}
    IN  IF known = {}
        THEN release([m EXCEPT !.shutdowns[j].pc = "done",
                               !.shutdowns[j].result = "False"])
        ELSE LET t == CHOOSE u \in known : \A v \in known : v <= u
             IN  settle([m EXCEPT !.shutdowns[j].pc = "closing",
                                  !.shutdowns[j].targets = {t},
                                  !.sessions[t] = cleanup_agent(@)],
                        Task("shutdown", j))

\* shutdown_agent(call_id), lines 304-310
shutdown_agent(m, j) ==
    LET call_id == m.shutdowns[j].call_id
    IN  IF ~is_call_active(m, call_id)
        THEN release([m EXCEPT !.shutdowns[j].pc = "done",
                               !.shutdowns[j].result = "False"])
        ELSE LET t == m.agents[call_id]
             IN  settle([m EXCEPT !.shutdowns[j].pc = "closing",
                                  !.shutdowns[j].targets = {t},
                                  !.sessions[t] = cleanup_agent(@)],
                        Task("shutdown", j))

\* shutdown_all that counts the agents whose cleanup it has started so far
shutdown_all_counts_started(m, j) ==
    LET targets == {m.agents[c] : c \in DOMAIN m.agents}
        ss == m.sessions
    IN  IF Cardinality(DOMAIN m.agents) = 0
        THEN release([m EXCEPT !.shutdowns[j].pc = "done", !.shutdowns[j].result = "0"])
        ELSE [m EXCEPT !.shutdowns[j].pc = "closing",
                       !.shutdowns[j].count = 0,
                       !.shutdowns[j].targets = targets,
                       !.sessions = [t \in 1..Len(ss) |->
                                        IF t \in targets
                                        THEN [ss[t] EXCEPT !.cleanup = "start"]
                                        ELSE ss[t]]]

\* shutdown_all(), lines 317-327: one cleanup per registered agent, gathered
shutdown_all(m, j) ==
    LET targets == {m.agents[c] : c \in DOMAIN m.agents}
        ss == m.sessions
    IN  IF Cardinality(DOMAIN m.agents) = 0
        THEN release([m EXCEPT !.shutdowns[j].pc = "done", !.shutdowns[j].result = "0"])
        ELSE [m EXCEPT !.shutdowns[j].pc = "closing",
                       !.shutdowns[j].count = Cardinality(DOMAIN m.agents),
                       !.shutdowns[j].targets = targets,
                       !.sessions = [t \in 1..Len(ss) |->
                                        IF t \in targets
                                        THEN [ss[t] EXCEPT !.cleanup = "start"]
                                        ELSE ss[t]]]

\* the task has the lock: its locked section runs to its first await
enter(m, task) ==
    LET m1 == [m EXCEPT !.lock.holder = task]
    IN  IF task.kind = "start"
        THEN IF m1.sessions[task.id].pc = "lock_register" THEN register(m1, task.id)
             ELSE IF m1.sessions[task.id].pc = "lock_finish"
                  THEN controller_section(m1, task.id, "done", "closing")
                  ELSE controller_section(m1, task.id, "raised", "error_closing")
        ELSE IF m1.shutdowns[task.id].kind = "agent"
             THEN shutdown_agent(m1, task.id)
             ELSE shutdown_all(m1, task.id)

\* async with self._lock: asyncio.Lock is granted at once when it is free
\* and nobody waits for it, else in the order of the requests
request(m, task) ==
    IF m.lock.holder = NoTask /\ m.lock.queue = <<>>
    THEN enter(m, task)
    ELSE [m EXCEPT !.lock.queue = Append(@, task)]

\* start_interview without the test of is_call_active
start_interview_unchecked(m, call_id, avatar) ==
    [m EXCEPT !.sessions = Append(@, Session(call_id, "create_user", avatar))]

\* start_interview, lines 152-179: up to await agent.create_user()
start_interview(m, call_id, avatar) ==
    IF is_call_active(m, call_id)
    THEN [m EXCEPT !.sessions = Append(@, Session(call_id, "rejected", avatar))]
    ELSE [m EXCEPT !.sessions = Append(@, Session(call_id, "create_user", avatar))]

\* the except branch of start_interview, line 251
controller_raises(m, i, state) ==
    request([m EXCEPT !.sessions[i].failed_in = state,
                      !.sessions[i].pc = "lock_error"],
            Task("start", i))

\* start_interview, lines 179-209: create_user returned or raised
create_user_returns(m, i, ok) ==
    IF ok
    THEN request([m EXCEPT !.sessions[i].setup_time = now,
                           !.sessions[i].pc = "lock_register"],
                 Task("start", i))
    ELSE [m EXCEPT !.sessions[i].failed_in = "CREATED", !.sessions[i].pc = "raised"]

\* start_interview, lines 213-226: join returned, or raised with the
\* connection made or not
join_returns(m, i, ok, connection) ==
    IF ok
    THEN [m EXCEPT !.sessions[i].connection = "open",
                   !.sessions[i].agent_user_id = "agent-user",
                   !.sessions[i].pc = "prompt"]
    ELSE controller_raises([m EXCEPT !.sessions[i].connection = connection], i, "CREATED")

\* wait_for_completion returned and the controller goes on without a sleep
wait_returns_no_sleep(s, result) ==
    [s EXCEPT !.pc = "grace", !.wake = now, !.wait_result = result,
              !.signal_time = now, !.is_complete = TRUE]

\* wait_for_completion returned, by the event or by its timeout branch, which
\* sets the event: await asyncio.sleep(5)
wait_returns(s, result) ==
    [s EXCEPT !.pc = "grace", !.wake = now + GraceSeconds, !.wait_result = result,
              !.signal_time = now, !.is_complete = TRUE]

\* a failed prompt sent again through the join
prompt_returns_rejoins(m, i, ok) ==
    IF ok
    THEN [m EXCEPT !.sessions[i].pc = "wait",
                   !.sessions[i].deadline = now + WaitTimeoutSeconds]
    ELSE [m EXCEPT !.sessions[i].pc = "join"]

\* start_interview, lines 224-230: simple_response returned or raised; on
\* return wait_for_completion(timeout=900) is entered (asyncio.wait_for hands
\* the wait to the event loop also when the event is already set)
prompt_returns(m, i, ok) ==
    IF ok
    THEN [m EXCEPT !.sessions[i].pc = "wait",
                   !.sessions[i].deadline = now + WaitTimeoutSeconds]
    ELSE controller_raises(m, i, "JOINED")

\* the report made of the entries appended until wait_for_completion returned
grace_ends_drops_late(m, i) ==
    LET s == m.sessions[i]
        early == SelectSeq(s.transcript,
                           LAMBDA entry :
                               entry.timestamp <= Round2(s.signal_time - s.setup_time))
    IN  request([m EXCEPT !.sessions[i].snapshot = <<now - s.setup_time, early>>,
                          !.sessions[i].pc = "lock_finish"],
                Task("start", i))

\* start_interview, lines 234-241: the sleep is over; duration and transcript
\* are read, then _finish_interview asks for the lock
grace_ends(m, i) ==
    LET s == m.sessions[i]
    IN  request([m EXCEPT !.sessions[i].snapshot = <<now - s.setup_time, s.transcript>>,
                          !.sessions[i].pc = "lock_finish"],
                Task("start", i))

\* _send_completion_webhook, lines 368-378: the POST returned, or it raised
\* and the exception was logged; start_interview returns
webhook_returns(s, ok) ==
    [s EXCEPT !.pc = "done", !.delivery = IF ok THEN "ok" ELSE "failed"]

\* on_user_speech of the controller's processor: the entry, and the farewell
session_speech(s, event_text) ==
    LET text == StripOf[event_text]
        s1 == IF text # "" /\ Len(text) > 1
              THEN [s EXCEPT !.transcript = Append(@,
                       [speaker |-> "user", text |-> text,
                        timestamp |-> Round2(now - s.setup_time)])]
              ELSE s
    IN  IF IsUserFarewellOf[text] THEN [s1 EXCEPT !.is_complete = TRUE] ELSE s1

----------------------------------------------------------------------------
(* Construction. *)

\* __init__
InitWith(sc) ==
    /\ questions = sc.questions
    /\ minimum_duration_minutes = sc.minimum_duration_minutes
    /\ completion_callback = sc.completion_callback
    /\ call = sc.call
    /\ agent_user_id = ""
    /\ questions_asked = 0
    /\ current_question_index = 0
    /\ agent_closing_phrases = <<>>
    /\ last_agent_speech_time = None
    /\ interview_start_time = None
    /\ is_complete = FALSE
    /\ transcript = <<>>
    /\ now = 1000
    /\ handlers = <<>>
    /\ waiters = <<>>
    /\ sent = <<>>
    /\ complete_log = <<>>
    /\ callback_calls = 0
    /\ overlapped = FALSE
    /\ env = sc.env
    /\ agents = EmptyRegistry
    /\ lock = [holder |-> NoTask, queue |-> <<>>]
    /\ sessions = <<>>
    /\ shutdowns = <<>>

Init == \E sc \in GeneralScenarios \cup QuotaScenarios : InitWith(sc)

InitWait == \E sc \in WaitScenarios : InitWith(sc)

InitTranscript == \E sc \in TranscriptScenarios : InitWith(sc)

InitOutage == \E sc \in OutageScenarios : InitWith(sc)

InitShortPlan == \E sc \in ShortPlanScenarios : InitWith(sc)

InitManager == \E sc \in ManagerScenarios : InitWith(sc)

InitLock == \E sc \in LockScenarios : InitWith(sc)

InitSessions == \E sc \in SessionsScenarios : InitWith(sc)

----------------------------------------------------------------------------
(* Operations. *)

processor == <<questions_asked, current_question_index, agent_closing_phrases,
               last_agent_speech_time, is_complete, transcript, sent,
               complete_log, callback_calls>>

config == <<questions, minimum_duration_minutes, completion_callback, call, env>>

\* the variables of the processor taken alone, but the clock
single == <<config, agent_user_id, interview_start_time, processor, handlers, waiters,
            overlapped>>

InFlight == {i \in 1..Len(handlers) : handlers[i].pc # "done"}

\* failed: a send_call_event awaited by the handler has raised
Handler(speaker, text, r) ==
    [speaker |-> speaker, text |-> text, pc |-> r.pc, matched |-> r.matched,
     failed |-> FALSE]

\* an awaited I/O call returns (TRUE) or raises (FALSE)
Outcomes(io) == IF io \in env.failing THEN BOOLEAN ELSE {TRUE}

\* setup(agent)
Setup ==
    /\ interview_start_time = None
    /\ interview_start_time' = now
    /\ UNCHANGED <<manager, config, agent_user_id, processor, now, handlers, waiters, overlapped>>

\* start_interview: completion_processor.agent_user_id = agent.agent_user.id
SetAgentUserId ==
    /\ interview_start_time # None
    /\ agent_user_id = ""
    /\ agent_user_id' = "agent-user"
    /\ UNCHANGED <<manager, config, interview_start_time, processor, now, handlers, waiters,
                   overlapped>>

\* the clock advances by 30 s
Tick ==
    /\ interview_start_time # None
    /\ now < interview_start_time + 30 * env.maxTicks
    /\ now' = now + 30
    /\ UNCHANGED <<manager, config, agent_user_id, interview_start_time, processor, handlers,
                   waiters, overlapped>>

CanReceive ==
    /\ interview_start_time # None
    /\ Len(handlers) < env.maxEvents
    /\ Cardinality(InFlight) < MaxInFlight

\* a RealtimeAgentSpeechTranscriptionEvent arrives: on_agent_speech runs to its
\* first suspension point
AgentSpeech ==
    \E event_text \in env.agentTexts :
        /\ CanReceive
        /\ LET r == agent_entry(Self, event_text)
           IN  /\ SetSelf(r.s)
               /\ handlers' = Append(handlers, Handler("agent", event_text, r))
        /\ overlapped' = (overlapped \/ InFlight # {})
        /\ UNCHANGED <<manager, config, agent_user_id, interview_start_time, now, waiters>>

\* a RealtimeUserSpeechTranscriptionEvent arrives: on_user_speech runs to its
\* first suspension point
UserSpeech ==
    \E event_text \in env.userTexts :
        /\ CanReceive
        /\ LET r == user_entry(Self, event_text)
           IN  /\ SetSelf(r.s)
               /\ handlers' = Append(handlers, Handler("user", event_text, r))
        /\ overlapped' = (overlapped \/ InFlight # {})
        /\ UNCHANGED <<manager, config, agent_user_id, interview_start_time, now, waiters>>

\* A handler suspended in an await resumes and runs to its next suspension
\* point.  send_call_event returning and send_call_event raising resume the
\* handler at the same place (the except branches of _send_transcript_event
\* and _send_progress_event only log).
resume(h) ==
    IF h.pc = "send_transcript"
    THEN IF h.speaker = "agent"
         THEN agent_count(Self, StripOf[h.text])
         ELSE user_farewell(Self, StripOf[h.text])
    ELSE IF h.pc = "send_progress"
         THEN agent_advance(Self, StripOf[h.text])
         ELSE Result(Self, "done", FALSE)

\* send_call_event that raises out of the handler
send_ends_propagates(h, ok) ==
    IF ok THEN resume(h) ELSE Result(Self, "done", FALSE)

\* the awaited send_call_event returned (ok) or raised: lines 113-114 and
\* 132-133 log the exception, and the handler goes on in both cases
send_ends(h, ok) == resume(h)

\* the handler after the end of a send
Resumed(h, r, ok) ==
    [Handler(h.speaker, h.text, r) EXCEPT !.failed = h.failed \/ ~ok]

\* the await of _send_transcript_event ends
TranscriptSendReturns ==
    \E i \in 1..Len(handlers), ok \in Outcomes("send_call_event") :
        /\ handlers[i].pc = "send_transcript"
        /\ LET r == send_ends(handlers[i], ok)
           IN  /\ SetSelf(r.s)
               /\ handlers' = [handlers EXCEPT ![i] = Resumed(handlers[i], r, ok)]
        /\ UNCHANGED <<manager, config, agent_user_id, interview_start_time, now, waiters,
                       overlapped>>

\* the await of _send_progress_event ends
ProgressSendReturns ==
    \E i \in 1..Len(handlers), ok \in Outcomes("send_call_event") :
        /\ handlers[i].pc = "send_progress"
        /\ LET r == send_ends(handlers[i], ok)
           IN  /\ SetSelf(r.s)
               /\ handlers' = [handlers EXCEPT ![i] = Resumed(handlers[i], r, ok)]
        /\ UNCHANGED <<manager, config, agent_user_id, interview_start_time, now, waiters,
                       overlapped>>

\* the completion callback awaited by a handler's _mark_complete returns
CallbackReturns ==
    \E i \in 1..Len(handlers) :
        /\ handlers[i].pc = "callback"
        /\ handlers' = [handlers EXCEPT ![i].pc = "done"]
        /\ UNCHANGED <<manager, config, agent_user_id, interview_start_time, processor, now,
                       waiters, overlapped>>

Waiter(pc, deadline, timeout, result) ==
    [pc |-> pc, deadline |-> deadline, timeout |-> timeout, result |-> result]

\* wait_for_completion that waits for a new signal although the event is set
WaitStart_ignores_set ==
    \E timeout \in env.timeouts :
        /\ interview_start_time # None
        /\ Len(waiters) < env.maxWaiters
        /\ now + timeout <= interview_start_time + 30 * env.maxTicks
        /\ UNCHANGED processor
        /\ waiters' = Append(waiters, [pc |-> "waiting", deadline |-> now + timeout,
                                       timeout |-> timeout, result |-> "none"])
        /\ UNCHANGED <<manager, config, agent_user_id, interview_start_time, now, handlers,
                       overlapped>>

\* wait_for_completion(timeout) is called.  asyncio.wait_for with timeout <= 0
\* raises TimeoutError at once; with the event already set it returns at once.
WaitStart ==
    \E timeout \in env.timeouts :
        /\ interview_start_time # None
        /\ Len(waiters) < env.maxWaiters
        /\ now + timeout <= interview_start_time + 30 * env.maxTicks
        /\ IF timeout <= 0
           THEN LET r == wait_timeout(Self, timeout)
                IN  /\ SetSelf(r.s)
                    /\ waiters' = Append(waiters, Waiter(r.pc, now, timeout, "timeout"))
           ELSE /\ UNCHANGED processor
                /\ waiters' = Append(waiters,
                       IF is_complete
                       THEN Waiter("done", now + timeout, timeout, "detected")
                       ELSE Waiter("waiting", now + timeout, timeout, "none"))
        /\ UNCHANGED <<manager, config, agent_user_id, interview_start_time, now, handlers,
                       overlapped>>

\* the event is set: asyncio.wait_for returns ("Interview completion detected")
WaitRelease ==
    \E w \in 1..Len(waiters) :
        /\ waiters[w].pc = "waiting"
        /\ is_complete
        /\ waiters' = [waiters EXCEPT ![w].pc = "done", ![w].result = "detected"]
        /\ UNCHANGED <<manager, config, agent_user_id, interview_start_time, processor, now,
                       handlers, overlapped>>

\* the timeout elapses: asyncio.TimeoutError, then _mark_complete("timeout ...")
WaitTimeout ==
    \E w \in 1..Len(waiters) :
        /\ waiters[w].pc = "waiting"
        /\ now >= waiters[w].deadline
        /\ LET r == wait_timeout(Self, waiters[w].timeout)
           IN  /\ SetSelf(r.s)
               /\ waiters' = [waiters EXCEPT ![w].pc = r.pc, ![w].result = "timeout"]
        /\ UNCHANGED <<manager, config, agent_user_id, interview_start_time, now, handlers,
                       overlapped>>

\* the completion callback awaited by wait_for_completion's _mark_complete returns
WaitCallbackReturns ==
    \E w \in 1..Len(waiters) :
        /\ waiters[w].pc = "callback"
        /\ waiters' = [waiters EXCEPT ![w].pc = "done"]
        /\ UNCHANGED <<manager, config, agent_user_id, interview_start_time, processor, now,
                       handlers, overlapped>>

Next ==
    \/ Setup
    \/ SetAgentUserId
    \/ Tick
    \/ AgentSpeech
    \/ UserSpeech
    \/ TranscriptSendReturns
    \/ ProgressSendReturns
    \/ CallbackReturns
    \/ WaitStart
    \/ WaitRelease
    \/ WaitTimeout
    \/ WaitCallbackReturns

Spec == Init /\ [][Next]_vars

SpecWait == InitWait /\ [][Next]_vars

SpecTranscript == InitTranscript /\ [][Next]_vars

SpecOutage == InitOutage /\ [][Next]_vars

SpecShortPlan == InitShortPlan /\ [][Next]_vars

\* The event loop runs every coroutine that is ready, the clock advances, and
\* the completion callback, once invoked, returns.
LiveSpecWait ==
    /\ SpecWait
    /\ WF_vars(Tick)
    /\ WF_vars(WaitRelease)
    /\ WF_vars(WaitTimeout)
    /\ WF_vars(WaitCallbackReturns)

----------------------------------------------------------------------------
(* Operations of the manager. *)

Timers ==
    {sessions[i].deadline : i \in {k \in 1..Len(sessions) : sessions[k].pc = "wait"}}
    \cup {sessions[i].wake : i \in {k \in 1..Len(sessions) : sessions[k].pc = "grace"}}

\* a request to start an interview
StartInterview ==
    \E call_id \in env.callIds, avatar \in env.avatars :
        /\ Len(sessions) < env.maxStarts
        /\ SetM(start_interview(M, call_id, avatar))
        /\ UNCHANGED <<single, now>>

\* await agent.create_user() ends
CreateUserReturns ==
    \E i \in 1..Len(sessions), ok \in Outcomes("create_user") :
        /\ sessions[i].pc = "create_user"
        /\ SetM(create_user_returns(M, i, ok))
        /\ UNCHANGED <<single, now>>

\* the lock was released: the first waiter gets it
LockGranted ==
    /\ lock.holder = NoTask
    /\ lock.queue # <<>>
    /\ SetM(enter([M EXCEPT !.lock.queue = Tail(@)], Head(lock.queue)))
    /\ UNCHANGED <<single, now>>

\* await agent.join(call) ends
JoinReturns ==
    \E i \in 1..Len(sessions), ok \in Outcomes("join"), connection \in {"none", "open"} :
        /\ sessions[i].pc = "join"
        /\ ok => connection = "open"
        /\ SetM(join_returns(M, i, ok, connection))
        /\ UNCHANGED <<single, now>>

\* await agent.simple_response(...) ends
PromptReturns ==
    \E i \in 1..Len(sessions), ok \in Outcomes("prompt") :
        /\ sessions[i].pc = "prompt"
        /\ SetM(prompt_returns(M, i, ok))
        /\ UNCHANGED <<single, now>>

\* a user speech event of a joined agent
SessionSpeech ==
    \E i \in 1..Len(sessions), event_text \in env.userTexts :
        /\ sessions[i].connection = "open"
        /\ sessions[i].pc \notin TerminalPcs
        /\ Len(sessions[i].transcript) < env.maxEvents
        /\ sessions' = [sessions EXCEPT ![i] = session_speech(@, event_text)]
        /\ UNCHANGED <<agents, lock, shutdowns>>
        /\ UNCHANGED <<single, now>>

\* wait_for_completion returns: the event is set
ControllerWaitReleased ==
    \E i \in 1..Len(sessions) :
        /\ sessions[i].pc = "wait"
        /\ sessions[i].is_complete
        /\ sessions' = [sessions EXCEPT ![i] = wait_returns(@, "detected")]
        /\ UNCHANGED <<agents, lock, shutdowns>>
        /\ UNCHANGED <<single, now>>

\* wait_for_completion returns: 900 s have passed, _mark_complete("timeout ...")
ControllerWaitTimeout ==
    \E i \in 1..Len(sessions) :
        /\ sessions[i].pc = "wait"
        /\ now >= sessions[i].deadline
        /\ sessions' = [sessions EXCEPT ![i] = wait_returns(@, "timeout")]
        /\ UNCHANGED <<agents, lock, shutdowns>>
        /\ UNCHANGED <<single, now>>

\* await asyncio.sleep(5) ends
GraceEnds ==
    \E i \in 1..Len(sessions) :
        /\ sessions[i].pc = "grace"
        /\ now >= sessions[i].wake
        /\ SetM(grace_ends(M, i))
        /\ UNCHANGED <<single, now>>

\* a cleanup gathered by shutdown_all starts to run
CleanupStarts ==
    \E t \in 1..Len(sessions) :
        /\ sessions[t].cleanup = "start"
        /\ SetM(settle([M EXCEPT !.sessions[t] = cleanup_agent(@)], lock.holder))
        /\ UNCHANGED <<single, now>>

\* an awaited _rtc_manager.close() or _connection.close() ends
CloseReturns ==
    \E t \in 1..Len(sessions), ok \in Outcomes("close") :
        /\ sessions[t].cleanup \in {"rtc", "conn"}
        /\ SetM(settle([M EXCEPT !.sessions[t] = close_returns(@, ok)], lock.holder))
        /\ UNCHANGED <<single, now>>

\* the POST of _send_completion_webhook ends (its failure is only logged)
WebhookReturns ==
    \E i \in 1..Len(sessions), ok \in Outcomes("webhook") :
        /\ sessions[i].pc = "webhook"
        /\ sessions' = [sessions EXCEPT ![i] = webhook_returns(@, ok)]
        /\ UNCHANGED <<agents, lock, shutdowns>>
        /\ UNCHANGED <<single, now>>

\* a call of shutdown_agent(call_id)
ShutdownAgent ==
    \E call_id \in env.callIds :
        /\ "agent" \in env.shutdownKinds
        /\ Len(shutdowns) < env.maxShutdowns
        /\ SetM(request([M EXCEPT !.shutdowns = Append(@, Shutdown("agent", call_id))],
                        Task("shutdown", Len(shutdowns) + 1)))
        /\ UNCHANGED <<single, now>>

\* a call of shutdown_all()
ShutdownAll ==
    /\ "all" \in env.shutdownKinds
    /\ Len(shutdowns) < env.maxShutdowns
    /\ SetM(request([M EXCEPT !.shutdowns = Append(@, Shutdown("all", ""))],
                    Task("shutdown", Len(shutdowns) + 1)))
    /\ UNCHANGED <<single, now>>

\* the clock reaches the next timer (the end of a wait or of a sleep)
AdvanceClock ==
    /\ \E t \in Timers : t > now
    /\ now' = CHOOSE t \in Timers : t > now /\ \A u \in Timers : u > now => t <= u
    /\ UNCHANGED <<manager, single>>

NextManager ==
    \/ StartInterview
    \/ CreateUserReturns
    \/ LockGranted
    \/ JoinReturns
    \/ PromptReturns
    \/ SessionSpeech
    \/ ControllerWaitReleased
    \/ ControllerWaitTimeout
    \/ GraceEnds
    \/ CleanupStarts
    \/ CloseReturns
    \/ WebhookReturns
    \/ ShutdownAgent
    \/ ShutdownAll
    \/ AdvanceClock

SpecManager == InitManager /\ [][NextManager]_vars

SpecSessions == InitSessions /\ [][NextManager]_vars

\* the event loop runs a task that is ready, and the awaited closes end
LiveSpecLock ==
    /\ InitLock /\ [][NextManager]_vars
    /\ WF_vars(LockGranted)
    /\ WF_vars(CleanupStarts)
    /\ WF_vars(CloseReturns)

----------------------------------------------------------------------------
(* Properties. *)

AgentEvents == {i \in 1..Len(handlers) : handlers[i].speaker = "agent"}

UserEvents == {i \in 1..Len(handlers) : handlers[i].speaker = "user"}

Returned(i) == handlers[i].pc \in {"callback", "done"}

ElapsedSeconds == now - interview_start_time

\* C1: the completion latch is set at most once and never cleared: no step
\* takes is_complete from TRUE back to FALSE
C1_LatchNeverCleared == [][is_complete => is_complete']_vars

\* a second signal attempt (a timeout) was made after a user's farewell had
\* set the latch
C1_Witness ==
    /\ is_complete
    /\ complete_log = <<"User said goodbye">>
    /\ \E w \in 1..Len(waiters) : waiters[w].pc = "done" /\ waiters[w].result = "timeout"

\* C2: with a completion callback configured, the callback has been invoked
\* once if the latch is set and not at all otherwise, at most one coroutine is
\* inside it, and it is invoked in the very step that sets the latch, by the
\* coroutine that then awaits it
C2_CallbackOnce ==
    /\ [](completion_callback =>
            /\ callback_calls = (IF is_complete THEN 1 ELSE 0)
            /\ Cardinality({i \in 1..Len(handlers) : handlers[i].pc = "callback"})
               + Cardinality({w \in 1..Len(waiters) : waiters[w].pc = "callback"}) <= 1)
    /\ [][callback_calls' # callback_calls =>
            /\ callback_calls' = callback_calls + 1
            /\ ~is_complete /\ is_complete'
            /\ \/ \E i \in 1..Len(handlers') :
                    /\ handlers'[i].pc = "callback"
                    /\ (i > Len(handlers) \/ handlers[i].pc # "callback")
               \/ \E w \in 1..Len(waiters') :
                    /\ waiters'[w].pc = "callback"
                    /\ (w > Len(waiters) \/ waiters[w].pc # "callback")]_vars

\* while the handler of a user's farewell is still awaiting the callback, an
\* agent closing phrase and a timeout have made further signal attempts
C2_Witness ==
    /\ completion_callback
    /\ callback_calls = 1
    /\ \E i \in UserEvents : handlers[i].pc = "callback"
    /\ \E j \in AgentEvents : Returned(j) /\ Len(agent_closing_phrases) > 0
    /\ \E w \in 1..Len(waiters) : waiters[w].pc = "done" /\ waiters[w].result = "timeout"

\* C3: a step that records an agent closing phrase runs the completion check,
\* and the check sets the latch iff a closing phrase has been seen and
\* (questions_asked >= expected_questions - 1 or the elapsed minutes reach
\* minimum_duration_minutes), with the counters as they stand after the event
C3_CheckIff ==
    [][Len(agent_closing_phrases') > Len(agent_closing_phrases) =>
         (is_complete' <=>
            \/ is_complete
            \/ /\ Len(agent_closing_phrases') > 0
               /\ \/ questions_asked' >= expected_questions - 1
                  \/ ElapsedSeconds >= 60 * minimum_duration_minutes)]_vars

\* expected_questions = 5, minimum_duration_minutes = 3: the closing phrase
\* at questions_asked = 2 after 1 min did not complete, the same phrase at
\* questions_asked = 2 after 3.5 min did
C3_Witness ==
    /\ expected_questions = 5 /\ minimum_duration_minutes = 3
    /\ questions_asked = 2
    /\ Len(agent_closing_phrases) = 2
    /\ Len(transcript) = 4
    /\ transcript[3].text = "Thanks for sharing, goodbye" /\ transcript[3].timestamp = 60
    /\ transcript[4].text = "Thanks for sharing, goodbye" /\ transcript[4].timestamp = 210
    /\ is_complete
    /\ complete_log = <<"agent said goodbye, 3.5 min duration">>

\* expected_questions = 5, minimum_duration_minutes = 3: the closing phrase at
\* questions_asked = 4 after 1 min completes
C3_SlackExample ==
    /\ expected_questions = 5 /\ minimum_duration_minutes = 3
    /\ questions_asked = 4
    /\ ElapsedSeconds = 60
    /\ Len(agent_closing_phrases) = 1
    /\ is_complete
    /\ complete_log = <<"agent said goodbye, asked 4 questions">>

\* expected_questions = 5, minimum_duration_minutes = 3: the closing phrase at
\* questions_asked = 2 after 1 min does not complete
C3_TooEarlyExample ==
    /\ expected_questions = 5 /\ minimum_duration_minutes = 3
    /\ questions_asked = 2
    /\ ElapsedSeconds = 60
    /\ Len(agent_closing_phrases) = 1
    /\ transcript[Len(transcript)].timestamp = 60
    /\ ~is_complete

\* no agent event received so far contains a closing keyword
NoAgentClosingEvent ==
    \A i \in AgentEvents : ~HasClosingKeywordOf[StripOf[handlers[i].text]]

\* no user event received so far contains "goodbye" or "bye"
NoUserFarewellEvent ==
    \A i \in UserEvents : ~IsUserFarewellOf[StripOf[handlers[i].text]]

\* C4: as long as no agent event contained a closing keyword and no user
\* event a farewell, the latch is set only by the timeout branch of
\* wait_for_completion, whatever questions_asked and the elapsed time are
C4_OnlyTimeoutWithoutClosing ==
    (is_complete /\ NoAgentClosingEvent /\ NoUserFarewellEvent) =>
        /\ Len(complete_log) = 1
        /\ Contains("timeout", complete_log[1])
        /\ \E w \in 1..Len(waiters) : waiters[w].result = "timeout"
        /\ agent_closing_phrases = <<>>

\* agent questions without a closing keyword reached the question quota and
\* the minimum duration, and the run completed by timeout
C4_Witness ==
    /\ AgentEvents # {} /\ \A i \in AgentEvents : Returned(i)
    /\ NoAgentClosingEvent /\ NoUserFarewellEvent
    /\ questions_asked >= expected_questions - 1
    /\ ElapsedSeconds >= 60 * minimum_duration_minutes
    /\ is_complete
    /\ complete_log = <<"timeout after 0.5 minutes">>

\* C5: once the handler of a user event whose text contains "goodbye" or
\* "bye" has run past its farewell test, the latch is set, whatever the state
\* before
C5_UserFarewellCompletes ==
    \A i \in UserEvents :
        (IsUserFarewellOf[StripOf[handlers[i].text]] /\ Returned(i)) => is_complete

\* a user's farewell completed the interview with no closing phrase, no
\* question asked and less than the minimum duration elapsed
C5_Witness ==
    /\ \E i \in UserEvents : handlers[i].text = "Okay bye" /\ Returned(i)
    /\ agent_closing_phrases = <<>>
    /\ questions_asked = 0
    /\ ElapsedSeconds < 60 * minimum_duration_minutes
    /\ is_complete
    /\ complete_log = <<"User said goodbye">>

WaiterCalled(w) == w <= Len(waiters)

WaiterAt(w, pc) == IF w <= Len(waiters) THEN waiters[w].pc = pc ELSE FALSE

\* C6: every call of wait_for_completion returns; a call that takes the
\* timeout branch while the latch is not set sets it with a reason containing
\* "timeout"; after a call has returned the latch is set
C6_WaitReturns ==
    /\ \A w \in 1..MaxWaiters :
          WaiterCalled(w) ~> WaiterAt(w, "done")
    /\ [](\A w \in 1..Len(waiters) : waiters[w].pc = "done" => is_complete)
    /\ [][\A w \in 1..Len(waiters') :
            (/\ waiters'[w].result = "timeout"
             /\ (w > Len(waiters) \/ waiters[w].result # "timeout")
             /\ ~is_complete)
            => /\ is_complete'
               /\ complete_log' = <<"timeout after " \o FormatMinutes(waiters'[w].timeout)
                                    \o " minutes">>
               /\ Contains("timeout", complete_log'[1])]_vars

\* with no closing phrase and no farewell received, a wait with a timeout of
\* 60 s returned by its timeout branch, which set the latch
C6_Witness ==
    /\ agent_closing_phrases = <<>>
    /\ NoUserFarewellEvent
    /\ \E w \in 1..Len(waiters) :
          /\ waiters[w].pc = "done"
          /\ waiters[w].timeout = 60
          /\ waiters[w].result = "timeout"
          /\ now >= waiters[w].deadline
    /\ is_complete
    /\ complete_log = <<"timeout after 1.0 minutes">>

\* C7: a call of wait_for_completion made when the latch is set returns in
\* the step of the call, with the clock, the latch, the log and the callback
\* count unchanged; every waiter that is waiting when the latch is set
\* returns, and the latch was signalled once
C7_LateAndConcurrentWaiters ==
    /\ [][(is_complete /\ Len(waiters') = Len(waiters) + 1) =>
            /\ waiters'[Len(waiters')].pc = "done"
            /\ now' = now
            /\ UNCHANGED <<is_complete, complete_log, callback_calls>>]_vars
    /\ \A w \in 1..MaxWaiters :
          (WaiterAt(w, "waiting") /\ is_complete) ~> WaiterAt(w, "done")
    /\ [](Len(complete_log) <= 1)

\* two waiters that were waiting were released by the user's farewell before
\* their timeouts, no timeout was signalled
C7_Witness ==
    /\ Len(waiters) >= 2
    /\ transcript # <<>>
    /\ \A w \in 1..Len(waiters) :
          /\ waiters[w].pc = "done"
          /\ waiters[w].result = "detected"
          /\ waiters[w].deadline - waiters[w].timeout
                < interview_start_time + transcript[1].timestamp
          /\ now < waiters[w].deadline
    /\ complete_log = <<"User said goodbye">>

\* the handler i is in the await pc after this step and was not before
Entered(i, pc) ==
    /\ handlers'[i].pc = pc
    /\ (i > Len(handlers) \/ handlers[i].pc # pc)

\* the handler i was in the await pc before this step and is not after
Left(i, pc) ==
    /\ i <= Len(handlers)
    /\ handlers[i].pc = pc
    /\ handlers'[i].pc # pc

\* the handler of agent event i runs its question counting in this step: it
\* arrives and does not suspend in the transcript broadcast, or it resumes
\* from the transcript broadcast
Counts(i) ==
    /\ handlers'[i].speaker = "agent"
    /\ \/ i > Len(handlers) /\ handlers'[i].pc # "send_transcript"
       \/ Left(i, "send_transcript")

\* the utterance matches the planned question that is pending before the step
MatchesPending(text) ==
    /\ current_question_index < Len(questions)
    /\ MatchesQuestionOf[questions[current_question_index + 1].text, text]

ProgressEvent(index) ==
    [type |-> "progress", questionIndex |-> index,
     category |-> questions[index + 1].category, totalQuestions |-> Len(questions)]

C9_IndexWithinPlan == current_question_index <= Len(questions)

Min(a, b) == IF a <= b THEN a ELSE b

\* The index that handling the events one after another gives: the pointer
\* moves on at every agent utterance that matches the question it points at
\* (and, when gated, contains a question indicator).
RECURSIVE SequentialIndex(_, _, _)
SequentialIndex(k, index, gated) ==
    IF k > Len(handlers) THEN index
    ELSE LET text == StripOf[handlers[k].text]
             advance == /\ handlers[k].speaker = "agent"
                        /\ index < Len(questions)
                        /\ MatchesQuestionOf[questions[index + 1].text, text]
                        /\ (gated => HasQuestionIndicatorOf[text])
         IN  SequentialIndex(k + 1, IF advance THEN index + 1 ELSE index, gated)

----------------------------------------------------------------------------
(* The transcript. *)

PunctuationChars == ".,;:!?-"

\* the text is not empty and all its characters are punctuation marks
IsPunctuation(text) ==
    /\ Len(text) > 0
    /\ \A i \in 1..Len(text) :
          \E j \in 1..Len(PunctuationChars) : Char(text, i) = Char(PunctuationChars, j)

IsPunctuationOf == [t \in Texts |-> IsPunctuation(t)]

Speakers == {"agent", "user"}

\* the speech events of the speaker whose trimmed text is the text
EventsOf(speaker, text) ==
    {i \in 1..Len(handlers) :
        handlers[i].speaker = speaker /\ StripOf[handlers[i].text] = text}

\* the transcript entries of the speaker with the text
EntriesOf(speaker, text) ==
    {k \in 1..Len(transcript) :
        transcript[k].speaker = speaker /\ transcript[k].text = text}

\* the event has an entry in the transcript
Kept(h) ==
    LET text == StripOf[h.text]
    IN  IF h.speaker = "agent" THEN text # "" ELSE text # "" /\ Len(text) > 1

\* the speakers and texts of the kept events among the first k received
RECURSIVE Arrived(_)
Arrived(k) ==
    IF k = 0 THEN <<>>
    ELSE Arrived(k - 1) \o (IF Kept(handlers[k])
                            THEN <<[speaker |-> handlers[k].speaker,
                                    text |-> StripOf[handlers[k].text]]>>
                            ELSE <<>>)

\* C11: the transcript is append-only and in arrival order: a step leaves it
\* unchanged or appends one entry at its end, and get_transcript() lists the
\* speakers and texts of the kept events in the order the events were received
C11_TranscriptArrivalOrder ==
    /\ [][\/ transcript' = transcript
          \/ /\ Len(transcript') = Len(transcript) + 1
             /\ SubSeq(transcript', 1, Len(transcript)) = transcript]_vars
    /\ [](LET snapshot == get_transcript
          IN  [k \in 1..Len(snapshot) |->
                  [speaker |-> snapshot[k].speaker, text |-> snapshot[k].text]]
              = Arrived(Len(handlers)))

\* a user entry then an agent entry, the agent event having arrived while the
\* user's handler was suspended in its broadcast
C11_Witness ==
    /\ Len(handlers) = 2 /\ overlapped
    /\ handlers[1].pc = "send_transcript"
    /\ Len(get_transcript) = 2
    /\ get_transcript[1].speaker = "user" /\ get_transcript[1].text = "..."
    /\ get_transcript[2].speaker = "agent"
    /\ get_transcript[2].text = "Tell me about your background?"

\* C12 as stated: a user event whose trimmed text is only punctuation, of any
\* length, has no transcript entry
C12_UserPunctuationDropped ==
    \A t \in Texts :
        (IsPunctuationOf[t] /\ EventsOf("user", t) # {}) => EntriesOf("user", t) = {}

\* C13 as stated: the events whose trimmed text is not empty and not pure
\* punctuation have exactly one transcript entry each, for both speakers, and
\* those whose trimmed text is empty have none
C13_OneEntryPerSpokenEvent ==
    \A speaker \in Speakers, t \in Texts :
        /\ (t # "" /\ ~IsPunctuationOf[t]) =>
              Cardinality(EntriesOf(speaker, t)) = Cardinality(EventsOf(speaker, t))
        /\ t = "" => EntriesOf(speaker, t) = {}

\* C14: every timestamp of the transcript is non-negative and the timestamps
\* are non-decreasing in transcript order
C14_TimestampsOrdered ==
    /\ \A k \in 1..Len(transcript) : transcript[k].timestamp >= 0
    /\ \A k \in 1..(Len(transcript) - 1) :
          transcript[k].timestamp <= transcript[k + 1].timestamp

\* an agent entry follows, 30 s later, the entry of a user event whose handler
\* is still suspended in its broadcast
C14_Witness ==
    /\ Len(transcript) = 2 /\ overlapped
    /\ handlers[1].pc = "send_transcript"
    /\ transcript[1].speaker = "user" /\ transcript[1].timestamp = 30
    /\ transcript[2].speaker = "agent" /\ transcript[2].timestamp = 60

----------------------------------------------------------------------------
(* The registry and the controllers. *)

\* the controllers started in this step
Started == (Len(sessions) + 1)..Len(sessions')

\* the agent of the controller is attached to its call and was not torn down
Attached(s) == s.connection = "open" /\ s.teardowns = 0

\* C15: a start request for a call id that is registered is rejected: the
\* registry and every controller are left as they were, and the rejected
\* request never registers, sets up, joins or goes on
C15_DuplicateStartRejected ==
    /\ [][\A i \in Started :
            is_call_active(M, sessions'[i].call_id) =>
                /\ sessions'[i].pc = "rejected"
                /\ agents' = agents
                /\ SubSeq(sessions', 1, Len(sessions)) = sessions]_vars
    /\ [](\A i \in 1..Len(sessions) :
            sessions[i].pc = "rejected" =>
                /\ sessions[i].registered = 0
                /\ sessions[i].setup_time = None
                /\ sessions[i].connection = "none")
    /\ [][\A i \in 1..Len(sessions) :
            sessions[i].pc = "rejected" => sessions'[i] = sessions[i]]_vars

\* the second request for call-1 was rejected while the first controller,
\* registered and joined, waits for completion
C15_Witness ==
    /\ Len(sessions) = 2
    /\ sessions[1].call_id = "call-1" /\ sessions[2].call_id = "call-1"
    /\ sessions[1].pc = "wait" /\ sessions[1].connection = "open"
    /\ is_call_active(M, "call-1") /\ agents["call-1"] = 1
    /\ sessions[2].pc = "rejected"

\* C16 as stated: of the start requests for one call id that run
\* concurrently, at most one registers and joins, so that two agents are
\* never attached to the same call (stated for runs without shutdown)
C16_OneAgentPerCall ==
    shutdowns = <<>> =>
        \A i, k \in 1..Len(sessions) :
            (/\ i < k
             /\ sessions[i].call_id = sessions[k].call_id
             /\ Attached(sessions[i]))
            => ~Attached(sessions[k])

\* the call of shutdown_all j returns in this step
ShutdownAllReturns(j) ==
    /\ shutdowns'[j].kind = "all"
    /\ shutdowns'[j].pc = "done"
    /\ (j > Len(shutdowns) \/ shutdowns[j].pc # "done")

\* the controllers the registry refers to
Registered == {agents[c] : c \in DOMAIN agents}

\* C17: when shutdown_all returns, the registry is empty, the value returned
\* is the number N of entries the registry held, and for every one of them
\* the cleanup was run to its end (the close of its avatar session, if any,
\* was called), also when a close of the same or another agent raised
C17_ShutdownAllTearsDownAll ==
    [][\A j \in 1..Len(shutdowns') :
          ShutdownAllReturns(j) =>
              /\ shutdowns'[j].result = ToString(Cardinality(DOMAIN agents))
              /\ DOMAIN agents' = {}
              /\ shutdowns'[j].targets = Registered
              /\ \A t \in Registered :
                    /\ sessions'[t].teardowns >= 1
                    /\ sessions'[t].removed >= 1
                    /\ sessions'[t].cleanup = "none"
                    /\ sessions'[t].avatar => sessions'[t].rtc_closes >= 1]_vars

\* shutdown_all returned 2 with the registry empty: the close of the first
\* agent's connection raised, the second agent's connection was closed
C17_Witness ==
    /\ Len(shutdowns) >= 1 /\ Len(sessions) = 2
    /\ shutdowns[1].kind = "all" /\ shutdowns[1].pc = "done"
    /\ shutdowns[1].result = "2" /\ shutdowns[1].targets = {1, 2}
    /\ DOMAIN agents = {}
    /\ sessions[1].closes = 1 /\ sessions[1].connection = "open"
    /\ sessions[2].closes = 1 /\ sessions[2].connection = "closed"

\* C18 as stated: a controller that registered and has ended had its agent
\* torn down once and removed from the registry once, and a controller that
\* ended with a connection had the connection's close called
C18_DestroyedExactlyOnce ==
    \A i \in 1..Len(sessions) :
        sessions[i].pc \in {"done", "raised"} =>
            /\ sessions[i].registered > 0 =>
                  sessions[i].teardowns = 1 /\ sessions[i].removed = 1
            /\ sessions[i].connection # "none" => sessions[i].closes >= 1

\* C19 as stated: a controller whose agent a shutdown removed while it was
\* RUNNING does not stay in wait_for_completion until the 900 s timeout
C19_ShutdownCancelsWait ==
    \A i \in 1..Len(sessions) :
        sessions[i].removed_in = "RUNNING" => sessions[i].wait_result # "timeout"

Rank(state) ==
    IF state = "CREATED" THEN 1
    ELSE IF state = "JOINED" THEN 2
    ELSE IF state = "RUNNING" THEN 3
    ELSE IF state = "COMPLETING" THEN 4
    ELSE 5

\* C20: a controller starts in CREATED and a step leaves its state unchanged,
\* moves it to the next of CREATED, JOINED, RUNNING, COMPLETING, TERMINATED,
\* or, after an exception, from a state that is not TERMINATED to TERMINATED;
\* TERMINATED is final (a rejected request has no controller)
C20_ControllerStateOrder ==
    [][/\ \A i \in Started : ControllerState(sessions'[i]) \in {"CREATED", "NONE"}
       /\ \A i \in 1..Len(sessions) :
            LET before == ControllerState(sessions[i])
                after == ControllerState(sessions'[i])
            IN  \/ after = before
                \/ /\ before \notin {"TERMINATED", "NONE"}
                   /\ \/ Rank(after) = Rank(before) + 1
                      \/ after = "TERMINATED" /\ sessions'[i].failed_in = before]_vars

\* a controller went through all five states: it registered, joined,
\* waited until the completion was detected, tore its agent down, delivered
\* its report and returned
C20_Witness ==
    \E i \in 1..Len(sessions) :
        /\ sessions[i].pc = "done"
        /\ ControllerState(sessions[i]) = "TERMINATED"
        /\ sessions[i].failed_in = "none"
        /\ sessions[i].wait_result = "detected"
        /\ sessions[i].reports = 1
        /\ sessions[i].removed = 1

----------------------------------------------------------------------------
(* Registration, the error path and the teardown. *)

\* the join of the controller is in progress, or it raised and the except
\* branch has not yet got the lock for its shutdown_agent
JoinPending(s) ==
    \/ s.pc = "join"
    \/ s.pc = "lock_error" /\ s.failed_in = "CREATED"

\* somebody has asked for a shutdown of the call id: a call of shutdown_agent
\* for it or of shutdown_all, or the except branch of a controller of it
ShutdownRequested(call_id) ==
    \/ \E j \in 1..Len(shutdowns) :
          shutdowns[j].kind = "all" \/ shutdowns[j].call_id = call_id
    \/ \E k \in 1..Len(sessions) :
          sessions[k].call_id = call_id /\ sessions[k].failed_in # "none"

\* C21 as stated: while a join is in progress, or has failed part-way, and no
\* shutdown was requested for the call id, is_call_active(call_id) is true
C21_RegisteredWhileJoining ==
    \A i \in 1..Len(sessions) :
        (/\ JoinPending(sessions[i])
         /\ ~ShutdownRequested(sessions[i].call_id))
        => is_call_active(M, sessions[i].call_id)

\* the except branch of the registered controller i re-raises in this step
Reraises(i) ==
    /\ sessions[i].registered > 0
    /\ sessions[i].pc # "raised"
    /\ sessions'[i].pc = "raised"

\* C22 as stated: when the except branch of a registered controller
\* re-raises, the cleanup of its agent has been run, its entry has been
\* removed from the registry and is_call_active(call_id) is false
C22_ErrorPathTearsDown ==
    [][\A i \in 1..Len(sessions) :
          Reraises(i) =>
              /\ sessions'[i].teardowns >= 1
              /\ sessions'[i].removed >= 1
              /\ sessions[i].call_id \notin DOMAIN agents']_vars

\* a close is awaited on the agent
Closing(s) == s.cleanup \in {"start", "rtc", "conn"}

\* C23: in a cleanup the close of the avatar session is called, and has
\* returned or raised, before the close of the connection is called; when
\* the close of the avatar session ends, by return or by exception, the
\* close of an existing connection is called; when the close of the
\* connection ends, by return or by exception, the entry is removed from the
\* registry as soon as no other gathered cleanup is pending
C23_TeardownOrder ==
    /\ [](\A t \in 1..Len(sessions) :
            /\ sessions[t].avatar => sessions[t].closes <= sessions[t].rtc_closes
            /\ sessions[t].cleanup = "done" =>
                  \E u \in 1..Len(sessions) : Closing(sessions[u]))
    /\ [][\A t \in 1..Len(sessions) :
            /\ (sessions[t].cleanup = "rtc" /\ sessions'[t].cleanup # "rtc")
                => IF sessions[t].connection # "none"
                   THEN /\ sessions'[t].closes = sessions[t].closes + 1
                        /\ sessions'[t].cleanup = "conn"
                   ELSE sessions'[t].closes = sessions[t].closes
            /\ (sessions[t].cleanup = "conn" /\ sessions'[t].cleanup # "conn")
                => \/ /\ sessions'[t].cleanup = "none"
                      /\ sessions'[t].removed = sessions[t].removed + 1
                      /\ \A c \in DOMAIN agents' : agents'[c] # t
                   \/ /\ sessions'[t].cleanup = "done"
                      /\ \E u \in 1..Len(sessions) : Closing(sessions'[u])]_vars

\* an interview with an avatar ended with both closes raising: the close of
\* the avatar session was called, then the close of the connection, then
\* the agent was removed and the report sent
C23_Witness ==
    \E t \in 1..Len(sessions) :
        /\ sessions[t].avatar /\ sessions[t].pc = "done"
        /\ sessions[t].rtc_closes = 1 /\ sessions[t].rtc = "open"
        /\ sessions[t].closes = 1 /\ sessions[t].connection = "open"
        /\ sessions[t].removed = 1 /\ sessions[t].reports = 1
        /\ ~is_call_active(M, sessions[t].call_id)

\* C24 as stated: at most one delivery of the report is attempted for a
\* controller; it is attempted only when the controller's agent has been
\* torn down and removed from the registry; when the delivery has ended, by
\* return or by exception, the controller has returned and no further
\* delivery is attempted
C24_OneReportAfterTeardown ==
    /\ [](\A i \in 1..Len(sessions) : sessions[i].reports <= 1)
    /\ [][\A i \in 1..Len(sessions) :
            /\ sessions'[i].reports > sessions[i].reports =>
                  /\ sessions'[i].teardowns >= 1
                  /\ sessions'[i].removed >= 1
                  /\ \A c \in DOMAIN agents' : agents'[c] # i
            /\ sessions[i].delivery # "none" =>
                  /\ sessions[i].pc = "done"
                  /\ sessions'[i] = sessions[i]]_vars

\* the controller is in _finish_interview or has returned from it
Finishing(s) ==
    \/ s.pc \in {"lock_finish", "closing", "webhook"}
    \/ s.pc = "done" /\ s.wait_result # "none"

\* C25: a controller enters _finish_interview, whose locked section is its
\* teardown, only when GraceSeconds have passed since wait_for_completion
\* returned; the duration and the transcript of the report have been read by
\* then, at a time that is not before the end of the delay, and they are what
\* the processor held at that time
C25_GraceBeforeTeardown ==
    /\ [](\A i \in 1..Len(sessions) :
            Finishing(sessions[i]) =>
                /\ now >= sessions[i].signal_time + GraceSeconds
                /\ sessions[i].snapshot # <<>>
                /\ sessions[i].snapshot[1] + sessions[i].setup_time
                      >= sessions[i].signal_time + GraceSeconds)
    /\ [][\A i \in 1..Len(sessions) :
            (sessions[i].pc = "grace" /\ sessions'[i].pc # "grace") =>
                /\ Finishing(sessions'[i])
                /\ sessions'[i].snapshot =
                      <<now - sessions[i].setup_time, sessions[i].transcript>>]_vars

\* the completion was detected at 1000 and the controller, its sleep over at
\* 1005, has read the duration and a transcript of one entry and waits for
\* the lock, which a shutdown holds: its own teardown has not started
C25_Witness ==
    \E i \in 1..Len(sessions) :
        /\ sessions[i].pc = "lock_finish"
        /\ sessions[i].wait_result = "detected"
        /\ sessions[i].signal_time + GraceSeconds = now
        /\ Len(sessions[i].snapshot) = 2 /\ Len(sessions[i].snapshot[2]) = 1
        /\ lock.holder.kind = "shutdown"

\* the shutdown call j runs its locked section in this step
ShutdownEnters(j) ==
    /\ j > Len(shutdowns) \/ shutdowns[j].pc = "lock"
    /\ shutdowns'[j].pc # "lock"

\* C26: shutdown_agent of a call id that is not in the registry (never
\* registered, or removed before) returns False, and shutdown_all on an
\* empty registry returns 0; such a call leaves the registry and every agent
\* as they were, so a second shutdown of a call id changes nothing; the
\* same holds for the locked section of a controller (_finish_interview, or
\* shutdown_agent in its except branch) that finds its call id absent
C26_ShutdownOfAbsentIsNoOp ==
    [][/\ \A j \in 1..Len(shutdowns') :
            ShutdownEnters(j) =>
                LET absent == IF shutdowns'[j].kind = "agent"
                              THEN ~is_call_active(M, shutdowns'[j].call_id)
                              ELSE DOMAIN agents = {}
                IN  /\ absent <=> shutdowns'[j].result \in {"False", "0"}
                    /\ absent => /\ shutdowns'[j].pc = "done"
                                  /\ agents' = agents
                                  /\ sessions' = sessions
       /\ \A i \in 1..Len(sessions) :
            (/\ sessions[i].pc \notin TerminalPcs
             /\ sessions'[i].pc \in {"done", "raised"}
             /\ sessions[i].pc # "webhook"
             /\ ~is_call_active(M, sessions[i].call_id))
            => /\ agents' = agents
               /\ \A t \in 1..Len(sessions) :
                     /\ sessions'[t].teardowns = sessions[t].teardowns
                     /\ sessions'[t].rtc_closes = sessions[t].rtc_closes
                     /\ sessions'[t].closes = sessions[t].closes
                     /\ sessions'[t].removed = sessions[t].removed]_vars

\* shutdown_agent("call-1") was called twice during an interview: the first
\* call closed the connection and returned True, the second returned False,
\* and the agent was torn down once
C26_Witness ==
    /\ Len(shutdowns) = 2 /\ Len(sessions) = 1
    /\ shutdowns[1].kind = "agent" /\ shutdowns[1].result = "True"
    /\ shutdowns[2].kind = "agent" /\ shutdowns[2].result = "False"
    /\ shutdowns[2].call_id = shutdowns[1].call_id
    /\ sessions[1].call_id = shutdowns[1].call_id
    /\ sessions[1].teardowns = 1 /\ sessions[1].closes = 1
    /\ sessions[1].connection = "closed" /\ sessions[1].removed = 1
    /\ DOMAIN agents = {}

\* the agent of the controller is joining its call or has joined it, and no
\* cleanup has been run on it
Live(s) ==
    /\ s.pc = "join" \/ s.connection = "open"
    /\ s.teardowns = 0

\* C27 as stated: an agent that is joining or has joined its call and was
\* not torn down is the one the registry entry of its call id refers to
C27_RegistryKnowsAttached ==
    \A i \in 1..Len(sessions) :
        Live(sessions[i]) =>
            /\ is_call_active(M, sessions[i].call_id)
            /\ agents[sessions[i].call_id] = i

\* C30 as stated: a report is sent only by a controller whose wait for the
\* completion returned and that went through its teardown; a controller
\* that raised, or whose agent a shutdown_agent or shutdown_all removed
\* from the registry, sends no report
C30_ReportOnlyOnCompletion ==
    \A i \in 1..Len(sessions) :
        sessions[i].reports >= 1 =>
            /\ sessions[i].wait_result # "none"
            /\ sessions[i].pc \in {"webhook", "done"}
            /\ sessions[i].failed_in = "none"
            /\ sessions[i].removed_in = "none"

----------------------------------------------------------------------------
(* The notifications of the processor. *)

\* the closing-phrase detection and the completion check of the utterance
\* have run in this step
ClosingDetected(text) ==
    HasClosingKeywordOf[text] =>
        /\ agent_closing_phrases' = Append(agent_closing_phrases, text)
        /\ ShouldComplete(TRUE, questions_asked' >= expected_questions - 1,
                          ElapsedSeconds >= 60 * minimum_duration_minutes)
              => is_complete'

\* C29: a send_call_event that raises is not propagated: the entry of every
\* kept event is in the transcript; when the broadcast of an agent entry has
\* ended, by return or by exception, the question counting has run, and, if
\* no progress event is to be sent, the closing-phrase detection and the
\* completion check; when the send of a progress event has ended, the index
\* has advanced and the closing-phrase detection and the completion check
\* have run; when the broadcast of a user entry has ended, the farewell test
\* has run
C29_NotificationFailureSwallowed ==
    /\ [](\A i \in 1..Len(handlers) :
            Kept(handlers[i]) =>
                EntriesOf(handlers[i].speaker, StripOf[handlers[i].text]) # {})
    /\ [][\A i \in 1..Len(handlers) :
            LET text == StripOf[handlers[i].text]
            IN  /\ (Left(i, "send_transcript") /\ handlers[i].speaker = "agent") =>
                      /\ questions_asked' = questions_asked
                            + (IF HasQuestionIndicatorOf[text] THEN 1 ELSE 0)
                      /\ handlers'[i].pc = "send_progress"
                            <=> (HasQuestionIndicatorOf[text] /\ MatchesPending(text))
                      /\ handlers'[i].pc # "send_progress" => ClosingDetected(text)
                /\ Left(i, "send_progress") =>
                      /\ current_question_index' = current_question_index + 1
                      /\ ClosingDetected(text)
                /\ (Left(i, "send_transcript") /\ handlers[i].speaker = "user") =>
                      (IsUserFarewellOf[text] => is_complete')]_vars

\* the broadcast of the entry and the progress event of an utterance that
\* asks the first question and closes both raised: the entry is in the
\* transcript, the question was counted, the index advanced and the closing
\* phrase was recorded
C29_Witness ==
    /\ Len(handlers) = 1
    /\ handlers[1].speaker = "agent" /\ handlers[1].failed
    /\ handlers[1].pc = "done" /\ handlers[1].matched
    /\ HasClosingKeywordOf[StripOf[handlers[1].text]]
    /\ Len(transcript) = 1 /\ Len(sent) = 2
    /\ questions_asked = 1 /\ current_question_index = 1
    /\ Len(agent_closing_phrases) = 1
    /\ ~is_complete

\* C28 as stated: between the question counting of an event and its progress
\* advance and completion check, that is while its handler is suspended in
\* the send of its progress event, no other event updates questions_asked,
\* current_question_index or agent_closing_phrases
C28_EventProcessingAtomic ==
    [][\A i \in 1..Len(handlers) :
          (handlers[i].pc = "send_progress" /\ handlers'[i].pc = "send_progress")
          => UNCHANGED <<questions_asked, current_question_index,
                         agent_closing_phrases>>]_vars

----------------------------------------------------------------------------
(* The sessions of the manager side by side. *)

\* the completion event and the transcript of the processor of a session
Conversation(s) == <<s.is_complete, s.transcript>>

\* a speech event of the agent of controller i is handled in this step
OwnSpeech(i) ==
    /\ sessions[i].connection = "open"
    /\ \E event_text \in env.userTexts :
           sessions'[i] = session_speech(sessions[i], event_text)

\* wait_for_completion of controller i returns in this step
OwnWait(i) ==
    /\ sessions[i].pc = "wait"
    /\ sessions'[i].pc = "grace"

\* C31: the completion event and the transcript of a session change only in
\* a step that handles a speech event of this session or in which its own
\* wait returns, and such a step leaves those of every other session as they
\* were; starts, registrations, shutdowns, teardowns and reports change none
C31_OwnEventsOnly ==
    [][\A i \in 1..Len(sessions) :
           Conversation(sessions'[i]) # Conversation(sessions[i]) =>
               /\ OwnSpeech(i) \/ OwnWait(i)
               /\ \A k \in 1..Len(sessions) \ {i} :
                      Conversation(sessions'[k]) = Conversation(sessions[k])
               /\ UNCHANGED <<agents, lock, shutdowns>>]_vars

\* a session that a shutdown tore down kept its empty transcript and its
\* unset event while a later session of the call id heard its user and
\* completed
C31_Witness ==
    \E i, k \in 1..Len(sessions) :
        /\ i # k
        /\ sessions[i].removed_in # "none"
        /\ sessions[i].connection = "closed"
        /\ Conversation(sessions[i]) = <<FALSE, <<>>>>
        /\ sessions[k].registered = 1
        /\ sessions[k].is_complete
        /\ sessions[k].transcript # <<>>

----------------------------------------------------------------------------
(* The completion check of the agent path. *)

\* the step signals completion with a reason of _check_completion
AgentPathSignals ==
    /\ Len(complete_log') = Len(complete_log) + 1
    /\ Contains("agent said goodbye", complete_log'[Len(complete_log')])

\* C32 as stated: completion through the agent path is signalled only when
\* 10 seconds or more have passed since the agent last spoke
C32_SilenceBeforeAgentCompletion ==
    [][AgentPathSignals =>
           /\ last_agent_speech_time' # None
           /\ now' - last_agent_speech_time' >= 10]_vars

----------------------------------------------------------------------------
(* The counters of the agent's speech. *)

\* the handler of agent event i has run its question counting
Counted(i) == handlers[i].speaker = "agent" /\ handlers[i].pc # "send_transcript"

\* the handler of agent event i has run its closing-phrase detection
Detected(i) ==
    /\ handlers[i].speaker = "agent"
    /\ handlers[i].pc \notin {"send_transcript", "send_progress"}

\* the handler of agent event i runs in this step
AgentStep(i) ==
    /\ handlers'[i].speaker = "agent"
    /\ i > Len(handlers) \/ handlers'[i] # handlers[i]

\* C33: questions_asked is the number of agent events with a question
\* indicator whose handler has counted, one per event however many
\* indicators its text holds, and agent_closing_phrases has one utterance
\* per agent event with a closing keyword whose handler has reached the
\* detection; a step changes them only by adding one to the counter or by
\* appending the utterance of an agent handler that runs in this step, so
\* user events and wait_for_completion change neither
C33_CountersGrowPerAgentEvent ==
    /\ [](/\ questions_asked =
               Cardinality({i \in AgentEvents :
                               /\ Counted(i)
                               /\ HasQuestionIndicatorOf[StripOf[handlers[i].text]]})
          /\ Len(agent_closing_phrases) =
               Cardinality({i \in AgentEvents :
                               /\ Detected(i)
                               /\ HasClosingKeywordOf[StripOf[handlers[i].text]]}))
    /\ [][/\ questions_asked' # questions_asked =>
               /\ questions_asked' = questions_asked + 1
               /\ \E i \in 1..Len(handlers') : Counts(i)
          /\ agent_closing_phrases' # agent_closing_phrases =>
               \E i \in 1..Len(handlers') :
                   /\ AgentStep(i)
                   /\ agent_closing_phrases' =
                          Append(agent_closing_phrases, StripOf[handlers'[i].text])]_vars

\* an utterance with two question indicators and one with three closing
\* keywords were handled: one question counted, one closing phrase kept
C33_Witness ==
    /\ Len(handlers) = 2
    /\ handlers[1].text = "What about testing?" /\ Returned(1)
    /\ handlers[2].text = "Thanks for sharing, goodbye" /\ Returned(2)
    /\ questions_asked = 1
    /\ agent_closing_phrases = <<"Thanks for sharing, goodbye">>

----------------------------------------------------------------------------
(* The progress notifications of a session. *)

\* the progress notifications emitted so far, in the order of their emission
ProgressSent == SelectSeq(sent, LAMBDA m : m.type = "progress")

\* C34 as stated: the questionIndex values emitted over a session are
\* strictly increasing, no index notified twice, also when the handlers of
\* several agent events are suspended in the notification at once
C34_ProgressIndicesIncrease ==
    \A k, l \in 1..Len(ProgressSent) :
        k < l => ProgressSent[k].questionIndex < ProgressSent[l].questionIndex

----------------------------------------------------------------------------
(* The reason of a completion. *)

\* the reason logged by the _mark_complete of this step
NewReason == complete_log'[Len(complete_log')]

\* a handler of this speaker runs in this step
HandlerStep(speaker) ==
    \E i \in 1..Len(handlers') :
        /\ handlers'[i].speaker = speaker
        /\ i > Len(handlers) \/ handlers'[i] # handlers[i]

\* C35: the reason of a completion signalled by an agent handler contains
\* "agent said goodbye", contains "asked N questions" with N = questions_asked
\* exactly when questions_asked >= expected_questions - 1, and contains the
\* duration part exactly when the elapsed time has reached
\* minimum_duration_minutes; a user handler gives "User said goodbye" and
\* wait_for_completion a reason that contains "timeout"
C35_ReasonListsCriteria ==
    [][Len(complete_log') > Len(complete_log) =>
           /\ HandlerStep("agent") =>
                  /\ Contains("agent said goodbye", NewReason)
                  /\ Contains("asked " \o ToString(questions_asked') \o " questions",
                              NewReason)
                         <=> questions_asked' >= expected_questions - 1
                  /\ Contains("asked ", NewReason)
                         <=> questions_asked' >= expected_questions - 1
                  /\ Contains(" min duration", NewReason)
                         <=> ElapsedSeconds >= 60 * minimum_duration_minutes
                  /\ ~Contains("timeout", NewReason)
           /\ HandlerStep("user") => NewReason = "User said goodbye"
           /\ waiters' # waiters => Contains("timeout", NewReason)]_vars

\* an agent closing phrase after the minimum duration and too few questions
\* completed the interview: the reason has the duration and no question part
C35_Witness ==
    /\ is_complete
    /\ questions_asked < expected_questions - 1
    /\ complete_log = <<"agent said goodbye, 3.0 min duration">>

----------------------------------------------------------------------------
(* When the completion check runs. *)

\* the handler of an agent event with a closing keyword records its phrase
\* in this step
ClosingPhraseStep ==
    /\ Len(agent_closing_phrases') = Len(agent_closing_phrases) + 1
    /\ \E i \in 1..Len(handlers') :
           /\ AgentStep(i)
           /\ HasClosingKeywordOf[StripOf[handlers'[i].text]]

\* the handler of a user event with a farewell runs its farewell test in
\* this step
UserFarewellStep ==
    \E i \in 1..Len(handlers') :
        /\ handlers'[i].speaker = "user"
        /\ i > Len(handlers) \/ handlers'[i] # handlers[i]
        /\ IsUserFarewellOf[StripOf[handlers'[i].text]]

\* the timeout branch of a wait_for_completion runs in this step
TimeoutStep ==
    \E w \in 1..Len(waiters') :
        /\ waiters'[w].result = "timeout"
        /\ w > Len(waiters) \/ waiters[w].result # "timeout"

\* C36: the event is set only in a step that records an agent closing
\* phrase, handles a user farewell or runs the timeout branch; the passing
\* of time and agent events without a closing keyword never set it, also
\* after a closing phrase that failed the check and once the criteria hold
C36_CheckOnlyOnClosingPhrase ==
    [][(is_complete' /\ ~is_complete) =>
           ClosingPhraseStep \/ UserFarewellStep \/ TimeoutStep]_vars

\* a closing phrase failed the check; later the question quota and the
\* minimum duration were both reached by questions without a closing
\* keyword, every handler has returned, and the event is still not set
C36_Witness ==
    /\ ~is_complete
    /\ Len(agent_closing_phrases) = 1
    /\ Len(handlers) > 1
    /\ HasClosingKeywordOf[StripOf[handlers[1].text]]
    /\ \A i \in 1..Len(handlers) : Returned(i)
    /\ questions_asked >= expected_questions - 1
    /\ ElapsedSeconds >= 60 * minimum_duration_minutes

----------------------------------------------------------------------------
(* Plans of zero or one question. *)

\* C37: with a plan of zero or one question, the step in which the handler
\* of an agent event records a closing phrase leaves the event set, and when
\* it was unset before, this step set it through the completion check with
\* the question criterion, whatever questions_asked and the elapsed time are
C37_ShortPlanCompletesOnClosing ==
    [][(expected_questions <= 1 /\ ClosingPhraseStep) =>
           /\ is_complete'
           /\ ~is_complete =>
                  /\ Len(complete_log') = Len(complete_log) + 1
                  /\ Contains("agent said goodbye, asked "
                                  \o ToString(questions_asked') \o " questions",
                              NewReason)]_vars

\* the plan is empty: the first agent utterance, a closing phrase at elapsed
\* time zero with no question asked, completed the interview
C37_Witness ==
    /\ expected_questions = 0
    /\ Len(handlers) = 1
    /\ handlers[1].speaker = "agent" /\ Returned(1)
    /\ questions_asked = 0
    /\ ElapsedSeconds = 0
    /\ is_complete
    /\ complete_log = <<"agent said goodbye, asked 0 questions">>

----------------------------------------------------------------------------
(* The teardown at the end of a controller. *)

\* C38 as stated: a controller whose session a shutdown removed while it was
\* waiting for the completion runs, when its wait ends, no cleanup on the
\* agent of another session: it closes only what it registered
C38_FinishTouchesOwnSessionOnly ==
    \A i, t \in 1..Len(sessions) :
        (/\ sessions[i].removed_in = "RUNNING"
         /\ lock.holder = Task("start", i)
         /\ t # i) => sessions[t].cleanup = "none"

----------------------------------------------------------------------------
(* Speech after the completion signal. *)

\* the sleep of controller i ends in this step
GraceEndsStep(i) ==
    /\ sessions[i].pc = "grace"
    /\ sessions'[i].pc # "grace"

\* the transcript that controller i hands to _finish_interview
Reported(s) == s.snapshot[2]

----------------------------------------------------------------------------
(* The lock of the registry. *)

\* the coroutines that take the lock: the controllers and the shutdown calls
LockTasks ==
    {Task("start", i) : i \in 1..MaxStarts}
    \cup {Task("shutdown", j) : j \in 1..(MaxShutdowns + 1)}

\* the task waits for the lock
Queued(task) == \E k \in 1..Len(lock.queue) : lock.queue[k] = task

\* C40: the holder of the lock never waits for it and no task waits twice;
\* a task leaves the queue only by being granted the free lock as the first
\* waiter; and when the awaited closes return, every task that waits for the
\* lock is granted it and every task that holds it releases it
C40_LockNeverDeadlocks ==
    /\ [](/\ ~Queued(lock.holder)
          /\ \A k, l \in 1..Len(lock.queue) : lock.queue[k] = lock.queue[l] => k = l)
    /\ [][\A k \in 1..Len(lock.queue) :
              (\A l \in 1..Len(lock.queue') : lock.queue'[l] # lock.queue[k]) =>
                  /\ k = 1
                  /\ lock.holder = NoTask
                  /\ lock.queue' = Tail(lock.queue)]_vars
    /\ \A task \in LockTasks :
           /\ Queued(task) ~> ~Queued(task)
           /\ lock.holder = task ~> lock.holder # task

\* a shutdown holds the lock during a close while the error path of a start
\* and another task wait for it
C40_Witness ==
    /\ lock.holder.kind = "shutdown"
    /\ Len(lock.queue) >= 2
    /\ \E i \in 1..Len(sessions) :
           /\ sessions[i].pc = "lock_error"
           /\ Queued(Task("start", i))

============================================================================
